---- MODULE Spec2Model ----
(***************************************************************************)
(* Support-desk backend: message ingestion (telegram/handlers.rs), the     *)
(* operator API over conversations and messages (api/handlers), and the    *)
(* bot lifecycle manager (telegram/bot_manager.rs).                        *)
(*                                                                         *)
(* Every await of a handler is one step: the stores are shared between the *)
(* update workers of the dispatcher and the HTTP requests, and a handler   *)
(* keeps its own snapshot of the rows it read.                             *)
(***************************************************************************)
EXTENDS Bags, FiniteSets, Integers, Naturals, Sequences, TLC

\* ------------------------------------------------------------------ bounds
NumSenders == 2
NumPrivateChats == 1
MaxUpdates == 2
MaxRequests == 1
MaxFaults == 1
NumCallers == 2
MaxCalls == 3
EventUpdates == 1
EventCalls == 1
NumAccounts == 2
MaxAdminRequests == 2
TimeBits == 3
BlockSize == 3
MaxClock == 2
MaxTokens == 1
MaxSettingsCalls == 2

Senders == 1..NumSenders
\* Every update creates at most one conversation.
ConvIds == 1..MaxUpdates

\* A private chat has the id of its user; GroupChat is a chat several users write
\* in. The dispatcher runs one handler at a time for each chat, and the handlers
\* of different chats concurrently: a worker is the queue of one chat.
GroupChat == 0
Workers == (1..NumPrivateChats) \cup {GroupChat}
Writers(chat) == IF chat = GroupChat THEN Senders ELSE {chat}

\* Operators (users table). OperatorA has a notification chat in its settings,
\* the settings blob of OperatorB does not parse.
OperatorA == 1
OperatorB == 2
Operators == {OperatorA, OperatorB}
NotifyChat(o) == IF o = OperatorA THEN 100 ELSE -1
NoOperator == 0

\* Bot tokens; NoToken is BotManager.bot = None.
NoToken == "none"
Token1 == "token1"
Token2 == "token2"
Tokens == {Token1, Token2}

VARIABLES
    telegram_users,   \* store "telegram_users": sender id -> row
    conversations,    \* store "conversations": conversation id -> row
    next_conv,        \* number of conversation ids handed out (Uuid::new_v4)
    messages,         \* store "messages": sequence of rows, the id is the index
    events,           \* bag of the events published by the WebSocket manager
    sent,             \* bag of the messages the bot transport delivered
    updates,          \* number of updates received from the transport
    requests,         \* number of HTTP requests started
    faults,           \* number of collaborator calls that failed so far
    ing,              \* update worker -> position and locals of handle_message
    req,              \* the HTTP request in progress: position and locals
    bot_handle,       \* BotManager.bot_handle: 0 (None) or the id of a task
    status,           \* BotManager.status
    bot,              \* BotManager.bot: "none" or the token of the Bot
    tasks,            \* receive-loop tasks spawned so far: task id -> state, token
    calls,            \* number of lifecycle calls started
    life,             \* caller -> position and locals of its lifecycle call
    users,            \* store "users": operator account id -> row
    gate,             \* client -> position and locals of its admin-gated request
    settings,         \* store "settings": the value of telegram_bot_token
    LOCALES,          \* the locale bundles that were loaded: language codes
    bundle,           \* the last call of get_locale: its argument and its result
    clock,            \* Utc::now(), in seconds
    issued,           \* the calls of generate_token and what they returned
    verified          \* the last call of verify_token: its arguments and its result

storeVars == <<telegram_users, conversations, next_conv, messages>>
outVars == <<events, sent>>
deskVars == <<telegram_users, conversations, next_conv, messages, events, sent,
              updates, requests, faults, ing, req>>
botVars == <<bot_handle, status, bot, tasks, calls, life>>
utilVars == <<LOCALES, bundle, clock, issued, verified>>
sideVars == <<users, gate, settings, LOCALES, bundle, clock, issued, verified>>
vars == <<telegram_users, conversations, next_conv, messages, events, sent,
          updates, requests, faults, ing, req, bot_handle, status, bot, tasks, calls,
          life, users, gate, settings, LOCALES, bundle, clock, issued, verified>>

\* ------------------------------------------------------------------ rows
NoUserRow == [exists |-> FALSE, is_blocked |-> FALSE, photo_url |-> FALSE]

NoConvRow ==
    [exists |-> FALSE, telegram_user_id |-> 0, user_id |-> NoOperator,
     status |-> "none", last_message_at |-> 0, unread_count |-> 0]

Open(row) == row.exists /\ row.status \in {"waiting", "active"}

OpenConvs(s) ==
    {c \in ConvIds : Open(conversations[c]) /\ conversations[c].telegram_user_id = s}

\* Utc::now(): a clock that every persisted row advances.
Now == Len(messages) + next_conv

\* A call of a collaborator (store, bot transport, event transport) answers or
\* fails; a run has at most MaxFaults failed calls.
Outcomes == IF faults < MaxFaults THEN BOOLEAN ELSE {TRUE}
Counted(ok) == faults' = IF ok THEN faults ELSE faults + 1
CanFail == faults < MaxFaults
Failed == faults' = faults + 1

Publish(e) == events (+) SetToBag({e})
Deliver(m) == sent (+) SetToBag({m})

\* ------------------------------------------------------------------ updates
MediaKinds == {"photo", "document", "video", "voice", "audio", "sticker", "animation"}
TextKinds == {"text", "empty_text"}
\* "long_text" is a text of more than 50 bytes whose byte 50 is inside a
\* character: Cyrillic letters after an odd number of ASCII characters.
NotifyKinds == {"text", "long_text", "photo"}
\* "no_sender" is an update without msg.from (a channel post).
OtherKinds == {"contact", "photo_nosizes", "no_sender"}
CommandKinds == {"/start", "/help", "/other"}
UpdateKinds == MediaKinds \cup TextKinds \cup OtherKinds
\* The kinds process_user_message stores a message for.
StoredKinds == MediaKinds \cup {"text"}

\* The (text, media_type) tuple of process_user_message, or the early exit.
Extract(kind) ==
    CASE kind = "photo" -> [out |-> "media", media_type |-> "photo"]
      [] kind \in {"photo_nosizes", "no_sender"} -> [out |-> "err", media_type |-> "none"]
      [] kind = "document" -> [out |-> "media", media_type |-> "document"]
      [] kind = "video" -> [out |-> "media", media_type |-> "video"]
      [] kind = "voice" -> [out |-> "media", media_type |-> "voice"]
      [] kind = "audio" -> [out |-> "media", media_type |-> "audio"]
      [] kind = "sticker" -> [out |-> "media", media_type |-> "sticker"]
      [] kind = "animation" -> [out |-> "media", media_type |-> "animation"]
      [] kind \in {"text", "long_text"} -> [out |-> "text", media_type |-> "none"]
      [] kind = "empty_text" -> [out |-> "empty", media_type |-> "none"]
      [] OTHER -> [out |-> "unsupported", media_type |-> "none"]

\* Language tag of a sender's Telegram client and the country code made of it.
\* The tag is the sequence of its subtags: "ru", "en-US".
LanguageCode(s) == IF s = 1 THEN <<"ru">> ELSE <<"en", "US">>
to_uppercase(t) == CASE t = "ru" -> "RU" [] t = "en" -> "EN" [] OTHER -> t
\* "en-US" -> "US", "ru" -> "RU"; the row of the sender keeps it.
CountryCode(s) ==
    LET lang == LanguageCode(s)
    IN  IF Len(lang) > 1 THEN to_uppercase(lang[2]) ELSE to_uppercase(lang[1])

\* Whether the transport has a chat photo or a profile photo of the sender.
Avatar(s) == s = 2

\* get_locale: the bundle the fixed replies are taken from. LOCALES holds the
\* bundles whose files were read and parsed; the key falls back to "en" and
\* expect() panics when that bundle is not there either. None is the country
\* code that is missing.
None == "None"
Panic == "panic"
\* get_locale without or_else(|| LOCALES.get("en")).
get_localeNoFallback(country_code) ==
    LET locale_key == IF country_code = "RU" THEN "ru" ELSE "en"
    IN  IF locale_key \in LOCALES THEN locale_key ELSE Panic

get_locale(country_code) ==
    LET locale_key == IF country_code = "RU" THEN "ru" ELSE "en"
    IN  IF locale_key \in LOCALES THEN locale_key
        ELSE IF "en" \in LOCALES THEN "en"
        ELSE Panic

\* ------------------------------------------------------------------ ingestion
NoSender == 0

IdleWorker ==
    [pc |-> "idle", from |-> NoSender, kind |-> "none", tg |-> 0,
     blocked |-> FALSE, photo |-> FALSE, conv |-> 0,
     cs |-> NoConvRow, is_new |-> FALSE, msg |-> 0]

\* A reply goes to msg.chat.id, the chat of the worker; conv is the conversation
\* the handler holds when it sends (0: none yet).
Reply(w, kind) == [to |-> w, kind |-> kind, locale |-> "fixed", conv |-> ing[w].conv]
Localized(w, kind) ==
    [to |-> w, kind |-> kind, locale |-> get_locale(CountryCode(ing[w].from)),
     conv |-> ing[w].conv]

\* The check of is_blocked left out.
AfterPhotoUnchecked(blocked) == "find_conv"

\* Where process_user_message goes once it holds the sender row.
AfterPhoto(blocked) == IF blocked THEN "blocked_reply" ELSE "find_conv"
AfterUser(blocked, photo) == IF photo THEN AfterPhoto(blocked) ELSE "photo_fetch"

\* handle_message, the branch of the commands: one reply, nothing stored.
HandleCommand(w) ==
    /\ ing[w].pc = "idle"
    /\ updates < MaxUpdates
    /\ \E cmd \in CommandKinds, ok \in Outcomes :
        /\ sent' = IF ok THEN Deliver(Reply(w, cmd)) ELSE sent
        /\ Counted(ok)
    /\ updates' = updates + 1
    /\ UNCHANGED <<storeVars, events, requests, ing, req, botVars, sideVars>>

\* handle_message up to the first await of process_user_message: the sender of
\* the update and the kind of its content. An update without a sender and a photo
\* without sizes are errors.
ReceiveUpdate(w, kinds) ==
    /\ ing[w].pc = "idle"
    /\ updates < MaxUpdates
    /\ \E from \in Writers(w), kind \in kinds :
        LET x == Extract(kind)
            me == [IdleWorker EXCEPT !.from = IF kind = "no_sender" THEN NoSender ELSE from,
                                     !.kind = kind, !.tg = updates + 1]
        IN  ing' = [ing EXCEPT ![w] =
                [me EXCEPT !.pc = CASE x.out = "err" -> "apology"
                                    [] x.out \in {"empty", "unsupported"} -> "early_reply"
                                    [] OTHER -> "get_user"]]
    /\ updates' = updates + 1
    /\ UNCHANGED <<storeVars, outVars, requests, faults, req, botVars, sideVars>>

\* The dispatcher hands handle_message an update it has handed over before: the
\* update of a stored sender message comes again with the same sender, the same
\* telegram_message_id and the same content. Nothing between run_bot and
\* process_user_message remembers the updates seen.
Redelivered(w) ==
    {m \in 1..Len(messages) :
        /\ ~messages[m].from_user
        /\ conversations[messages[m].conversation_id].telegram_user_id \in Writers(w)}

ReceiveDuplicate(w) ==
    /\ ing[w].pc = "idle"
    /\ updates < MaxUpdates
    /\ \E m \in Redelivered(w), kind \in StoredKinds :
        /\ Extract(kind).media_type = messages[m].media_type
        /\ ing' = [ing EXCEPT ![w] =
                [IdleWorker EXCEPT
                    !.from = conversations[messages[m].conversation_id].telegram_user_id,
                    !.kind = kind, !.tg = messages[m].telegram_message_id,
                    !.pc = "get_user"]]
    /\ updates' = updates + 1
    /\ UNCHANGED <<storeVars, outVars, requests, faults, req, botVars, sideVars>>

\* The early exits of the classification: an empty text is answered "Please, send
\* text massage or media.", any other content "The message with this type is not
\* supported yet."; then Ok(()).
\* The reply of the empty text given to every early exit.
EarlyNoteSame(kind) == "send_text_or_media"

EarlyNote(kind) ==
    IF Extract(kind).out = "empty" THEN "send_text_or_media" ELSE "not_supported"

EarlyReply(w) ==
    /\ ing[w].pc = "early_reply"
    /\ \E ok \in Outcomes :
        /\ IF ok
           THEN /\ sent' = Deliver(Reply(w, EarlyNote(ing[w].kind)))
                /\ ing' = [ing EXCEPT ![w] = IdleWorker]
           ELSE /\ sent' = sent
                /\ ing' = [ing EXCEPT ![w].pc = "apology"]
        /\ Counted(ok)
    /\ UNCHANGED <<storeVars, events, updates, requests, req, botVars, sideVars>>

\* user_store.get_by_id: Ok(Some(u)) keeps the row, Ok(None) | Err(_) goes to create.
GetUser(w) ==
    /\ ing[w].pc = "get_user"
    /\ \E ok \in (IF telegram_users[ing[w].from].exists THEN Outcomes ELSE {TRUE}) :
        LET row == telegram_users[ing[w].from] IN
        /\ ing' = [ing EXCEPT ![w] =
            IF ok /\ row.exists
            THEN [@ EXCEPT !.blocked = row.is_blocked, !.photo = row.photo_url,
                           !.pc = AfterUser(row.is_blocked, row.photo_url)]
            ELSE [@ EXCEPT !.pc = "create_user"]]
        /\ Counted(ok)
    /\ UNCHANGED <<storeVars, outVars, updates, requests, req, botVars, sideVars>>

\* user_store.create(new_user)?: the insert fails on an id that is already stored.
CreateUser(w) ==
    /\ ing[w].pc = "create_user"
    /\ \E ok \in (IF telegram_users[ing[w].from].exists THEN {TRUE} ELSE Outcomes) :
        LET s == ing[w].from IN
        /\ IF ok /\ ~telegram_users[s].exists
           THEN /\ telegram_users' = [telegram_users EXCEPT ![s] =
                        [exists |-> TRUE, is_blocked |-> FALSE, photo_url |-> FALSE]]
                /\ ing' = [ing EXCEPT ![w] =
                        [@ EXCEPT !.blocked = FALSE, !.photo = FALSE,
                                  !.pc = AfterUser(FALSE, FALSE)]]
           ELSE /\ ing' = [ing EXCEPT ![w].pc = "apology"]
                /\ UNCHANGED telegram_users
        /\ Counted(ok)
    /\ UNCHANGED <<conversations, next_conv, messages, outVars, updates, requests, req, botVars,
                   sideVars>>

\* update_user_profile_photo: the transport calls (get_chat, get_file,
\* get_user_profile_photos) find a photo or not; a photo found is written to the
\* row read by user_store.get_by_id. Every failure is logged and swallowed.
UpdateProfilePhoto(w) ==
    /\ ing[w].pc = "photo_fetch"
    /\ \E ok \in (IF Avatar(ing[w].from) THEN Outcomes ELSE {TRUE}) :
        LET s == ing[w].from IN
        /\ telegram_users' =
            IF ok /\ Avatar(s) /\ telegram_users[s].exists
            THEN [telegram_users EXCEPT ![s].photo_url = TRUE]
            ELSE telegram_users
        /\ Counted(ok)
    /\ ing' = [ing EXCEPT ![w].pc = AfterPhoto(ing[w].blocked)]
    /\ UNCHANGED <<conversations, next_conv, messages, outVars, updates, requests, req, botVars,
                   sideVars>>

\* The sender row read is blocked: the localized error reply, and Ok(()).
BlockedReply(w) ==
    /\ ing[w].pc = "blocked_reply"
    /\ \E ok \in Outcomes :
        /\ IF ok
           THEN /\ sent' = Deliver(Localized(w, "error"))
                /\ ing' = [ing EXCEPT ![w] = IdleWorker]
           ELSE /\ sent' = sent
                /\ ing' = [ing EXCEPT ![w].pc = "apology"]
        /\ Counted(ok)
    /\ UNCHANGED <<storeVars, events, updates, requests, req, botVars, sideVars>>

\* The conversation found taken for a new one.
ReuseAsNew(r, c) ==
    [r EXCEPT !.conv = c, !.cs = conversations[c], !.is_new = TRUE, !.pc = "create_msg"]

\* Ok(Some(conv)) => (conv, false)
Reuse(r, c) ==
    [r EXCEPT !.conv = c, !.cs = conversations[c], !.is_new = FALSE, !.pc = "create_msg"]

\* conversation_store.find_one(status waiting or active): Ok(Some(conv)) is any
\* matching row (the query has no order), Ok(None) | Err(_) goes to create.
FindConversation(w) ==
    /\ ing[w].pc = "find_conv"
    /\ \/ /\ \E c \in OpenConvs(ing[w].from) :
                ing' = [ing EXCEPT ![w] = Reuse(ing[w], c)]
          /\ faults' = faults
       \/ /\ OpenConvs(ing[w].from) = {}
          /\ ing' = [ing EXCEPT ![w].pc = "create_conv"]
          /\ faults' = faults
       \/ \* Err(_); on no open conversation it is the same as Ok(None)
          /\ OpenConvs(ing[w].from) # {}
          /\ CanFail
          /\ Failed
          /\ ing' = [ing EXCEPT ![w].pc = "create_conv"]
    /\ UNCHANGED <<storeVars, outVars, updates, requests, req, botVars, sideVars>>

\* A conversation that starts as active.
NewConversationActive(s) ==
    [exists |-> TRUE, telegram_user_id |-> s, user_id |-> NoOperator,
     status |-> "active", last_message_at |-> Now, unread_count |-> 0]

\* Conversation { status: "waiting", unread_count: 0, last_message_at: now, .. }
NewConversation(s) ==
    [exists |-> TRUE, telegram_user_id |-> s, user_id |-> NoOperator,
     status |-> "waiting", last_message_at |-> Now, unread_count |-> 0]

\* conversation_store.create(new_conv)?: an error ends process_user_message.
CreateConversation(w) ==
    /\ ing[w].pc = "create_conv"
    /\ \/ /\ LET id == next_conv + 1
                 row == NewConversation(ing[w].from)
             IN  /\ conversations' = [conversations EXCEPT ![id] = row]
                 /\ next_conv' = id
                 /\ ing' = [ing EXCEPT ![w] =
                        [@ EXCEPT !.conv = id, !.cs = row, !.is_new = TRUE,
                                  !.pc = "announce"]]
          /\ faults' = faults
       \/ /\ CanFail
          /\ Failed
          /\ ing' = [ing EXCEPT ![w].pc = "apology"]
          /\ UNCHANGED <<conversations, next_conv>>
    /\ UNCHANGED <<telegram_users, messages, outVars, updates, requests, req, botVars,
                   sideVars>>

\* Operators whose settings parse and name a numeric notification chat.
Notified == {o \in Operators : NotifyChat(o) > 0}

\* message_preview = &first_message[..50]: the slice of a text of more than 50
\* bytes panics when byte 50 is inside a character.
SplitsPreview(kind) == kind = "long_text"

\* if is_new_conversation: broadcast_event(ConversationCreated), a failure is
\* logged; then send_new_conversation_notifications_to_users: when the list of
\* the operators cannot be loaded the error is logged and nobody is notified,
\* else a send that fails is logged and the other operators are still sent to.
\* The preview is made for the first operator that is to be notified.
AnnounceConversation(w) ==
    /\ ing[w].pc = "announce"
    /\ \E ok \in Outcomes :
        LET failed == IF ok THEN 0 ELSE 1
        IN  /\ events' = IF ok
                         THEN Publish([type |-> "ConversationCreated", conv |-> ing[w].conv,
                                       msg |-> 0, code |-> "none"])
                         ELSE events
            /\ \/ /\ faults + failed < MaxFaults
                  /\ sent' = sent
                  /\ faults' = faults + failed + 1
                  /\ ing' = [ing EXCEPT ![w].pc = "create_msg"]
               \/ /\ SplitsPreview(ing[w].kind) /\ Notified # {}
                  /\ sent' = sent
                  /\ faults' = faults + failed
                  /\ ing' = [ing EXCEPT ![w].pc = "panicked"]
               \/ /\ ~(SplitsPreview(ing[w].kind) /\ Notified # {})
                  /\ \E lost \in {x \in SUBSET Notified :
                                        Cardinality(x) <= MaxFaults - faults - failed} :
                        /\ sent' = sent (+) SetToBag({[to |-> NotifyChat(o),
                                                       kind |-> "notification",
                                                       locale |-> "fixed",
                                                       conv |-> ing[w].conv] :
                                                      o \in Notified \ lost})
                        /\ faults' = faults + Cardinality(lost) + failed
                  /\ ing' = [ing EXCEPT ![w].pc = "create_msg"]
    /\ UNCHANGED <<storeVars, updates, requests, req, botVars, sideVars>>

\* Message::from_telegram_user / from_telegram_user_with_full_media
FromTelegramUser(conversation_id, telegram_message_id, media_type) ==
    [conversation_id |-> conversation_id, from_user |-> FALSE, read |-> FALSE,
     telegram_message_id |-> telegram_message_id, media_type |-> media_type]

\* The message is given an id and never written to the store.
CreateMessageSkipped(w) ==
    /\ ing[w].pc = "create_msg"
    /\ ing' = [ing EXCEPT ![w] = [@ EXCEPT !.msg = Len(messages) + 1, !.pc = "update_conv"]]
    /\ UNCHANGED <<storeVars, outVars, updates, requests, faults, req, botVars, sideVars>>

\* message_store.create(message)?
CreateMessage(w) ==
    /\ ing[w].pc = "create_msg"
    /\ \E ok \in Outcomes :
        /\ IF ok
           THEN /\ messages' = Append(messages,
                        FromTelegramUser(ing[w].conv, ing[w].tg,
                                         Extract(ing[w].kind).media_type))
                /\ ing' = [ing EXCEPT ![w] = [@ EXCEPT !.msg = Len(messages) + 1,
                                                       !.pc = "update_conv"]]
           ELSE /\ ing' = [ing EXCEPT ![w].pc = "apology"]
                /\ UNCHANGED messages
        /\ Counted(ok)
    /\ UNCHANGED <<telegram_users, conversations, next_conv, outVars, updates, requests,
                   req, botVars, sideVars>>

\* The updatable fields of a conversation row, written from the handler's copy.
WriteRow(old, new) ==
    [old EXCEPT !.user_id = new.user_id, !.status = new.status,
                !.last_message_at = new.last_message_at,
                !.unread_count = new.unread_count]

\* conversation_store.update(id, updated_conv)?: last_message_at = now, unread_count += 1
UpdateConversation(w) ==
    /\ ing[w].pc = "update_conv"
    /\ \E ok \in Outcomes :
        LET c == ing[w].conv
            updated_conv == [ing[w].cs EXCEPT !.last_message_at = Now,
                                              !.unread_count = @ + 1]
        IN  /\ IF ok /\ conversations[c].exists
               THEN /\ conversations' = [conversations EXCEPT ![c] = WriteRow(@, updated_conv)]
                    /\ ing' = [ing EXCEPT ![w] =
                            [@ EXCEPT !.cs = updated_conv,
                                      !.pc = IF ing[w].is_new THEN "welcome"
                                             ELSE "bcast_received"]]
               ELSE /\ ing' = [ing EXCEPT ![w].pc = "apology"]
                    /\ UNCHANGED conversations
            /\ Counted(ok)
    /\ UNCHANGED <<telegram_users, next_conv, messages, outVars, updates, requests,
                   req, botVars, sideVars>>

\* bot.send_message(welcome)?, only for a new conversation
SendWelcome(w) ==
    /\ ing[w].pc = "welcome"
    /\ \E ok \in Outcomes :
        /\ IF ok
           THEN /\ sent' = Deliver(Localized(w, "welcome"))
                /\ ing' = [ing EXCEPT ![w].pc = "bcast_received"]
           ELSE /\ ing' = [ing EXCEPT ![w].pc = "apology"]
                /\ UNCHANGED sent
        /\ Counted(ok)
    /\ UNCHANGED <<storeVars, events, updates, requests, req, botVars, sideVars>>

\* broadcast_event(MessageReceived): a failure is logged; Ok(())
BroadcastReceived(w) ==
    /\ ing[w].pc = "bcast_received"
    /\ \E ok \in Outcomes :
        /\ events' = IF ok
                     THEN Publish([type |-> "MessageReceived", conv |-> ing[w].conv,
                                   msg |-> ing[w].msg, code |-> "none"])
                     ELSE events
        /\ Counted(ok)
    /\ ing' = [ing EXCEPT ![w] = IdleWorker]
    /\ UNCHANGED <<storeVars, sent, updates, requests, req, botVars, sideVars>>

\* handle_message on Err(e): the generic apology to the chat of the update;
\* the handler returns and the worker takes the next update of its chat.
SendApology(w) ==
    /\ ing[w].pc = "apology"
    /\ \E ok \in Outcomes :
        /\ sent' = IF ok THEN Deliver(Reply(w, "apology")) ELSE sent
        /\ Counted(ok)
    /\ ing' = [ing EXCEPT ![w] = IdleWorker]
    /\ UNCHANGED <<storeVars, events, updates, requests, req, botVars, sideVars>>

\* process_user_message for a supported update of a sender that is not blocked.
Pipeline(w) ==
    \/ GetUser(w) \/ CreateUser(w) \/ UpdateProfilePhoto(w)
    \/ FindConversation(w) \/ CreateConversation(w) \/ AnnounceConversation(w)
    \/ CreateMessage(w) \/ UpdateConversation(w)
    \/ SendWelcome(w) \/ BroadcastReceived(w) \/ SendApology(w)

Ingest(w, kinds) ==
    ReceiveUpdate(w, kinds) \/ EarlyReply(w) \/ BlockedReply(w) \/ Pipeline(w)

\* ------------------------------------------------------------------ operator API
ConvOps == {"send", "assign", "close", "status", "mark_read", "delete"}
StatusArgs == {"waiting", "active", "closed", "bogus"}

IdleRequest ==
    [pc |-> "idle", op |-> "none", conv |-> 0, sender |-> NoSender, arg |-> "none",
     operator |-> NoOperator, cs |-> NoConvRow, us |-> NoUserRow, msg |-> 0, tg |-> 0,
     res |-> "none"]

Event(type, conv, msg, code) == [type |-> type, conv |-> conv, msg |-> msg, code |-> code]

Fail(r) == [r EXCEPT !.pc = "done", !.res = "err"]
Succeed(r) == [r EXCEPT !.pc = "done", !.res = "ok"]

\* The conversation ids an operator can have seen: the ones handed out so far.
Known == 1..next_conv
\* The operators a conversation is assigned to.
Assignees == {OperatorA}

\* An HTTP request reaches its handler. update_conversation_status refuses a
\* status it does not know before it reads anything.
StartRequest(ops) ==
    /\ req.pc \in {"idle", "done"}
    /\ requests < MaxRequests
    /\ requests' = requests + 1
    /\ \/ \E op \in ops \ {"status", "assign", "block"}, c \in Known :
            req' = [IdleRequest EXCEPT !.pc = "read", !.op = op, !.conv = c]
       \/ \E c \in Known, o \in Assignees :
            /\ "assign" \in ops
            /\ req' = [IdleRequest EXCEPT !.pc = "read", !.op = "assign", !.conv = c,
                                       !.operator = o]
       \/ \E c \in Known, a \in StatusArgs :
            /\ "status" \in ops
            /\ req' = [IdleRequest EXCEPT !.pc = IF a = "bogus" THEN "done" ELSE "read",
                                       !.res = IF a = "bogus" THEN "err" ELSE "none",
                                       !.op = "status", !.conv = c, !.arg = a]
       \/ \E s \in Senders, b \in BOOLEAN :
            /\ "block" \in ops
            /\ req' = [IdleRequest EXCEPT !.pc = "read_user", !.op = "block", !.sender = s,
                                       !.arg = IF b THEN "block" ELSE "unblock"]
    /\ UNCHANGED <<storeVars, outVars, updates, faults, ing, botVars, sideVars>>

\* conversation_store.get_by_id(id): NotFound on an error or a missing row.
ReadConversation ==
    /\ req.pc = "read"
    /\ \E ok \in Outcomes :
        /\ req' = IF ok /\ conversations[req.conv].exists
                  THEN [req EXCEPT !.cs = conversations[req.conv],
                                   !.pc = IF req.op = "send" THEN "send" ELSE "write"]
                  ELSE Fail(req)
        /\ Counted(ok)
    /\ UNCHANGED <<storeVars, outVars, updates, requests, ing, botVars, sideVars>>

\* The row a handler writes back, made from the row it read.
Changed(r) ==
    CASE r.op = "assign" -> [r.cs EXCEPT !.user_id = r.operator, !.status = "active"]
      [] r.op = "close" -> [r.cs EXCEPT !.status = "closed"]
      [] r.op = "status" -> [r.cs EXCEPT !.status = r.arg]
      [] r.op = "mark_read" -> [r.cs EXCEPT !.unread_count = 0]
      [] OTHER -> r.cs

\* assign_conversation, close_conversation, update_conversation_status,
\* mark_conversation_read: conversation_store.update(id, conv)
WriteConversation ==
    /\ req.pc = "write"
    /\ req.op \in {"assign", "close", "status", "mark_read"}
    /\ \E ok \in Outcomes :
        /\ IF ok /\ conversations[req.conv].exists
           THEN /\ conversations' = [conversations EXCEPT ![req.conv] =
                                        WriteRow(@, Changed(req))]
                /\ req' = [req EXCEPT !.cs = Changed(req), !.pc = "read_sender"]
           ELSE /\ req' = Fail(req)
                /\ UNCHANGED conversations
        /\ Counted(ok)
    /\ UNCHANGED <<telegram_users, next_conv, messages, outVars, updates, requests, ing,
                   botVars, sideVars>>

\* The event a conversation handler broadcasts after its write.
Announcement(r) ==
    CASE r.op = "assign" -> Event("ConversationAssigned", r.conv, 0, "none")
      [] r.op = "close" -> Event("ConversationClosed", r.conv, 0, "none")
      [] r.op = "status" /\ r.arg = "closed" -> Event("ConversationClosed", r.conv, 0, "none")
      [] OTHER -> Event("ConversationStatusChanged", r.conv, 0, r.arg)

\* After the write: telegram_user_store.get_by_id, an error or a missing row
\* fails the request. mark_conversation_read returns here: it broadcasts nothing.
ReadSender ==
    /\ req.pc = "read_sender"
    /\ \E ok \in Outcomes :
        /\ req' = IF ok /\ telegram_users[req.cs.telegram_user_id].exists
                  THEN IF req.op = "mark_read" THEN Succeed(req)
                       ELSE [req EXCEPT !.pc = "respond"]
                  ELSE Fail(req)
        /\ Counted(ok)
    /\ UNCHANGED <<storeVars, outVars, updates, requests, ing, botVars, sideVars>>

\* A broadcast whose failure fails the request.
RespondFatal ==
    /\ req.pc = "respond"
    /\ \E ok \in Outcomes :
        /\ events' = IF ok THEN Publish(Announcement(req)) ELSE events
        /\ req' = IF ok THEN Succeed(req) ELSE Fail(req)
        /\ Counted(ok)
    /\ UNCHANGED <<storeVars, sent, updates, requests, ing, botVars, sideVars>>

\* Then the broadcast, whose failure is logged, and Ok(Json(..)).
Respond ==
    /\ req.pc = "respond"
    /\ \E ok \in Outcomes :
        /\ events' = IF ok THEN Publish(Announcement(req)) ELSE events
        /\ Counted(ok)
    /\ req' = Succeed(req)
    /\ UNCHANGED <<storeVars, sent, updates, requests, ing, botVars, sideVars>>

\* delete_conversation: conversation_store.delete(id)
DeleteConversation ==
    /\ req.pc = "write"
    /\ req.op = "delete"
    /\ \E ok \in Outcomes :
        /\ IF ok
           THEN /\ conversations' = [conversations EXCEPT ![req.conv] = NoConvRow]
                /\ req' = Succeed(req)
           ELSE /\ req' = Fail(req)
                /\ UNCHANGED conversations
        /\ Counted(ok)
    /\ UNCHANGED <<telegram_users, next_conv, messages, outVars, updates, requests, ing,
                   botVars, sideVars>>

\* block_telegram_user: telegram_user_store.get_by_id
ReadUserToBlock ==
    /\ req.pc = "read_user"
    /\ \E ok \in Outcomes :
        /\ req' = IF ok /\ telegram_users[req.sender].exists
                  THEN [req EXCEPT !.us = telegram_users[req.sender], !.pc = "write_user"]
                  ELSE Fail(req)
        /\ Counted(ok)
    /\ UNCHANGED <<storeVars, outVars, updates, requests, ing, botVars, sideVars>>

\* block_telegram_user: telegram_user_store.update with is_blocked from the request
WriteUserBlock ==
    /\ req.pc = "write_user"
    /\ \E ok \in Outcomes :
        /\ IF ok
           THEN /\ telegram_users' = [telegram_users EXCEPT ![req.sender] =
                        [req.us EXCEPT !.is_blocked = (req.arg = "block")]]
                /\ req' = Succeed(req)
           ELSE /\ req' = Fail(req)
                /\ UNCHANGED telegram_users
        /\ Counted(ok)
    /\ UNCHANGED <<conversations, next_conv, messages, outVars, updates, requests, ing,
                   botVars, sideVars>>

\* ------------------------------------------------------------------ send_message
\* What bot.send_message can answer.
TransportOutcomes ==
    {"Ok", "BotBlocked", "UserDeactivated", "ChatNotFound", "OtherApi", "Network"}

\* Every error of the transport taken for an unreachable recipient.
SendMessageResultUnreachable(outcome) ==
    IF outcome = "Ok" THEN "Success" ELSE "UserBlocked"

\* send_message_to_telegram_user: the three results of a send.
SendMessageResult(outcome) ==
    CASE outcome = "Ok" -> "Success"
      [] outcome \in {"BotBlocked", "UserDeactivated", "ChatNotFound"} -> "UserBlocked"
      [] OTHER -> "Error"

\* The message id the transport gives to an operator's message.
TransportId == MaxUpdates + requests

\* bot_manager.bot() and send_message_to_telegram_user: without a bot the
\* request fails before the transport is called.
SendToTelegram ==
    /\ req.pc = "send"
    /\ IF bot = NoToken
       THEN /\ req' = Fail(req)
            /\ UNCHANGED sent
       ELSE \E outcome \in TransportOutcomes :
            LET result == SendMessageResult(outcome) IN
            /\ sent' = IF result = "Success"
                       THEN Deliver([to |-> req.cs.telegram_user_id, kind |-> "operator",
                                     locale |-> "fixed", conv |-> req.conv])
                       ELSE sent
            /\ req' = CASE result = "Success" ->
                            [req EXCEPT !.arg = outcome, !.tg = TransportId, !.pc = "store"]
                        [] result = "UserBlocked" ->
                            [req EXCEPT !.arg = outcome, !.pc = "blocked_read"]
                        [] OTHER -> [Fail(req) EXCEPT !.arg = outcome]
    /\ UNCHANGED <<storeVars, events, updates, requests, faults, ing, botVars, sideVars>>

\* The operator's message stored as unread.
FromUserMessageUnread(conversation_id, telegram_message_id) ==
    [conversation_id |-> conversation_id, from_user |-> TRUE, read |-> FALSE,
     telegram_message_id |-> telegram_message_id, media_type |-> "none"]

\* Message::from_user_message, with the id of the transport set on success
FromUserMessage(conversation_id, telegram_message_id) ==
    [conversation_id |-> conversation_id, from_user |-> TRUE, read |-> TRUE,
     telegram_message_id |-> telegram_message_id, media_type |-> "none"]

\* message_store.create(message)
StoreSentMessage ==
    /\ req.pc = "store"
    /\ \E ok \in Outcomes :
        /\ IF ok
           THEN /\ messages' = Append(messages, FromUserMessage(req.conv, req.tg))
                /\ req' = [req EXCEPT !.msg = Len(messages) + 1, !.pc = "update"]
           ELSE /\ req' = Fail(req)
                /\ UNCHANGED messages
        /\ Counted(ok)
    /\ UNCHANGED <<telegram_users, conversations, next_conv, outVars, updates, requests,
                   ing, botVars, sideVars>>

\* conversation_store.update: last_message_at = now, unread_count = 0
UpdateAfterSend ==
    /\ req.pc = "update"
    /\ \E ok \in Outcomes :
        LET conversation == [req.cs EXCEPT !.last_message_at = Now, !.unread_count = 0]
        IN  /\ IF ok /\ conversations[req.conv].exists
               THEN /\ conversations' = [conversations EXCEPT ![req.conv] =
                                            WriteRow(@, conversation)]
                    /\ req' = [req EXCEPT !.cs = conversation, !.pc = "bcast_sent"]
               ELSE /\ req' = Fail(req)
                    /\ UNCHANGED conversations
            /\ Counted(ok)
    /\ UNCHANGED <<telegram_users, next_conv, messages, outVars, updates, requests, ing,
                   botVars, sideVars>>

\* broadcast_event(MessageSent): a failure is logged; Ok(Json(..))
BroadcastSent ==
    /\ req.pc = "bcast_sent"
    /\ \E ok \in Outcomes :
        /\ events' = IF ok THEN Publish(Event("MessageSent", req.conv, req.msg, "none"))
                     ELSE events
        /\ Counted(ok)
    /\ req' = Succeed(req)
    /\ UNCHANGED <<storeVars, sent, updates, requests, ing, botVars, sideVars>>

\* UserBlocked: user_store.get_by_id of the conversation's sender
ReadBlockedUser ==
    /\ req.pc = "blocked_read"
    /\ \E ok \in Outcomes :
        LET row == telegram_users[req.cs.telegram_user_id] IN
        /\ req' = IF ok /\ row.exists
                  THEN [req EXCEPT !.us = row, !.pc = "blocked_write"]
                  ELSE [req EXCEPT !.pc = "blocked_bcast"]
        /\ Counted(ok)
    /\ UNCHANGED <<storeVars, outVars, updates, requests, ing, botVars, sideVars>>

\* The row left as it was read.
BlockedNot(row) == row

\* user.is_blocked = true
Blocked(row) == [row EXCEPT !.is_blocked = TRUE]

\* UserBlocked: user_store.update of the row marked blocked, a failure is logged
MarkUserBlocked ==
    /\ req.pc = "blocked_write"
    /\ \E ok \in Outcomes :
        /\ telegram_users' =
            IF ok THEN [telegram_users EXCEPT ![req.cs.telegram_user_id] =
                            Blocked(req.us)]
            ELSE telegram_users
        /\ Counted(ok)
    /\ req' = [req EXCEPT !.pc = "blocked_bcast"]
    /\ UNCHANGED <<conversations, next_conv, messages, outVars, updates, requests, ing,
                   botVars, sideVars>>

\* UserBlocked: broadcast_event(Error USER_BLOCKED), then Err(BadRequest)
BroadcastBlocked ==
    /\ req.pc = "blocked_bcast"
    /\ \E ok \in Outcomes :
        /\ events' = IF ok THEN Publish(Event("Error", 0, 0, "USER_BLOCKED")) ELSE events
        /\ Counted(ok)
    /\ req' = Fail(req)
    /\ UNCHANGED <<storeVars, sent, updates, requests, ing, botVars, sideVars>>

\* mark_as_read: PUT /api/messages/:id/read for a message id an operator has seen.
StartMarkAsRead ==
    /\ req.pc \in {"idle", "done"}
    /\ requests < MaxRequests
    /\ requests' = requests + 1
    /\ \E m \in DOMAIN messages :
        req' = [IdleRequest EXCEPT !.pc = "read_message", !.op = "read_message",
                                   !.conv = messages[m].conversation_id, !.msg = m]
    /\ UNCHANGED <<storeVars, outVars, updates, faults, ing, botVars, sideVars>>

\* mark_as_read: message_store.get_by_id, NotFound on an error. No other handler
\* writes a stored message, so the row read is the row in the store.
ReadMessage ==
    /\ req.pc = "read_message"
    /\ \E ok \in Outcomes :
        /\ req' = IF ok THEN [req EXCEPT !.pc = "write_message"] ELSE Fail(req)
        /\ Counted(ok)
    /\ UNCHANGED <<storeVars, outVars, updates, requests, ing, botVars, sideVars>>

\* mark_as_read: message.read = true; message_store.update(&id, message)
WriteMessageRead ==
    /\ req.pc = "write_message"
    /\ \E ok \in Outcomes :
        /\ IF ok
           THEN /\ messages' = [messages EXCEPT ![req.msg].read = TRUE]
                /\ req' = [req EXCEPT !.pc = "bcast_read"]
           ELSE /\ req' = Fail(req)
                /\ UNCHANGED messages
        /\ Counted(ok)
    /\ UNCHANGED <<telegram_users, conversations, next_conv, outVars, updates, requests,
                   ing, botVars, sideVars>>

\* mark_as_read: broadcast_event(MessageRead), a failure is logged; Ok(Json(..))
BroadcastRead ==
    /\ req.pc = "bcast_read"
    /\ \E ok \in Outcomes :
        /\ events' = IF ok THEN Publish(Event("MessageRead", req.conv, req.msg, "none"))
                     ELSE events
        /\ Counted(ok)
    /\ req' = Succeed(req)
    /\ UNCHANGED <<storeVars, sent, updates, requests, ing, botVars, sideVars>>

\* The handlers over conversations: assign, close, status, mark-read, delete.
ConversationApi(ops) ==
    \/ StartRequest(ops) \/ ReadConversation \/ WriteConversation \/ ReadSender
    \/ Respond \/ DeleteConversation

\* send_message, and block_telegram_user beside it.
DispatchApi ==
    \/ StartRequest({"send", "block"}) \/ ReadConversation
    \/ ReadUserToBlock \/ WriteUserBlock
    \/ SendToTelegram \/ StoreSentMessage \/ UpdateAfterSend \/ BroadcastSent
    \/ ReadBlockedUser \/ MarkUserBlocked \/ BroadcastBlocked

\* ------------------------------------------------------------------ bot lifecycle
\* The tasks that call the manager: main() (start at boot, stop at shutdown) and
\* the tasks update_settings spawns to restart the bot.
Callers == 1..NumCallers
LifeOps == {"start", "stop", "restart"}
NoTask == 0

\* ret is where the caller goes when stop() returns; alone says that no other
\* lifecycle call has been in progress since this one began.
IdleCaller ==
    [pc |-> "idle", op |-> "none", token |-> NoToken, ret |-> "none",
     handle |-> NoTask, alone |-> TRUE, res |-> "none"]

Resting(j) == life[j].pc \in {"idle", "done"}
Return(k, res) == [IdleCaller EXCEPT !.pc = "done", !.op = life[k].op, !.res = res]

\* stop() keeps the write guard of bot_handle from its first line to its return.
StopHeld == {"stop_bot", "stop_status", "stop_bcast"}
Locked == \E j \in Callers : life[j].pc \in StopHeld

BotStatusEvent(value) == Event("BotStatus", 0, 0, value)

\* A caller enters start, stop or restart; each of them begins with stop().
Call(k) ==
    /\ Resting(k)
    /\ calls < MaxCalls
    /\ calls' = calls + 1
    /\ \E op \in LifeOps :
       \E token \in (IF op = "stop" THEN {NoToken} ELSE Tokens) :
        life' = [j \in Callers |->
            IF j = k
            THEN [IdleCaller EXCEPT
                    !.pc = "stop_lock", !.op = op, !.token = token,
                    !.ret = CASE op = "stop" -> "return"
                              [] op = "start" -> "connecting"
                              [] OTHER -> "sleep",
                    !.alone = \A i \in Callers \ {k} : Resting(i)]
            ELSE IF Resting(j) THEN life[j]
            ELSE [life[j] EXCEPT !.alone = FALSE]]
    /\ UNCHANGED <<deskVars, bot_handle, status, bot, tasks, sideVars>>

\* JoinHandle::abort: the task is cancelled at its next yield. A task that is
\* past run_bot may still get to its last write.
Aborted(state) ==
    CASE state = "running" -> {"aborted"}
      [] state = "ending" -> {"ending", "aborted"}
      [] OTHER -> {state}

\* stop(): bot_handle.write().await, handle.take(), h.abort()
StopLock(k) ==
    /\ life[k].pc = "stop_lock"
    /\ ~Locked
    /\ IF bot_handle = NoTask
       THEN tasks' = tasks
       ELSE \E after \in Aborted(tasks[bot_handle].state) :
                tasks' = [tasks EXCEPT ![bot_handle].state = after]
    /\ bot_handle' = NoTask
    /\ life' = [life EXCEPT ![k].pc = "stop_bot"]
    /\ UNCHANGED <<deskVars, status, bot, calls, sideVars>>

\* stop() that leaves the Bot in place.
StopBotKept(k) ==
    /\ life[k].pc = "stop_bot"
    /\ life' = [life EXCEPT ![k].pc = "stop_status"]
    /\ UNCHANGED <<deskVars, bot_handle, status, bot, tasks, calls, sideVars>>

\* stop(): *self.bot.write().await = None
StopBot(k) ==
    /\ life[k].pc = "stop_bot"
    /\ bot' = NoToken
    /\ life' = [life EXCEPT ![k].pc = "stop_status"]
    /\ UNCHANGED <<deskVars, bot_handle, status, tasks, calls, sideVars>>

\* stop(): *self.status.write().await = BotStatus::Disconnected
StopStatus(k) ==
    /\ life[k].pc = "stop_status"
    /\ status' = "Disconnected"
    /\ life' = [life EXCEPT ![k].pc = "stop_bcast"]
    /\ UNCHANGED <<deskVars, bot_handle, bot, tasks, calls, sideVars>>

\* stop(): broadcast_status_change(Disconnected), a failure is logged; Ok(()).
\* The guard of bot_handle is dropped; the caller goes on where stop() was called.
StopBroadcast(k) ==
    /\ life[k].pc = "stop_bcast"
    /\ \E ok \in Outcomes :
        /\ events' = IF ok THEN Publish(BotStatusEvent("disconnected")) ELSE events
        /\ Counted(ok)
    /\ life' = [life EXCEPT ![k] =
            IF life[k].ret = "return" THEN Return(k, "ok")
            ELSE [@ EXCEPT !.pc = life[k].ret]]
    /\ UNCHANGED <<storeVars, sent, updates, requests, ing, req, bot_handle, status, bot,
                   tasks, calls, sideVars>>

\* restart(): after stop(), sleep(100ms), then start(token), which begins with stop()
Sleep(k) ==
    /\ life[k].pc = "sleep"
    /\ life' = [life EXCEPT ![k] = [@ EXCEPT !.pc = "stop_lock", !.ret = "connecting"]]
    /\ UNCHANGED <<deskVars, bot_handle, status, bot, tasks, calls, sideVars>>

\* start(): *self.status.write().await = BotStatus::Connecting
Connecting(k) ==
    /\ life[k].pc = "connecting"
    /\ status' = "Connecting"
    /\ life' = [life EXCEPT ![k].pc = "bcast_connecting"]
    /\ UNCHANGED <<deskVars, bot_handle, bot, tasks, calls, sideVars>>

\* start(): broadcast_status_change(Connecting)
BroadcastConnecting(k) ==
    /\ life[k].pc = "bcast_connecting"
    /\ \E ok \in Outcomes :
        /\ events' = IF ok THEN Publish(BotStatusEvent("connecting")) ELSE events
        /\ Counted(ok)
    /\ life' = [life EXCEPT ![k].pc = "get_me"]
    /\ UNCHANGED <<storeVars, sent, updates, requests, ing, req, bot_handle, status, bot,
                   tasks, calls, sideVars>>

\* What timeout(5s, bot.get_me()) can answer.
GetMeOutcomes == {"Ok(Ok)", "Ok(Err)", "Err(Elapsed)"}

\* start(): the identity check
GetMe(k) ==
    /\ life[k].pc = "get_me"
    /\ \E answer \in GetMeOutcomes :
        life' = [life EXCEPT ![k].pc = IF answer = "Ok(Ok)" THEN "set_bot" ELSE "set_error"]
    /\ UNCHANGED <<deskVars, bot_handle, status, bot, tasks, calls, sideVars>>

\* start(), Ok(Ok(me)): *self.bot.write().await = Some(bot.clone())
SetBot(k) ==
    /\ life[k].pc = "set_bot"
    /\ bot' = life[k].token
    /\ life' = [life EXCEPT ![k].pc = "set_connected"]
    /\ UNCHANGED <<deskVars, bot_handle, status, tasks, calls, sideVars>>

\* start(), Ok(Ok(me)): *self.status.write().await = BotStatus::Connected
SetConnected(k) ==
    /\ life[k].pc = "set_connected"
    /\ status' = "Connected"
    /\ life' = [life EXCEPT ![k].pc = "bcast_connected"]
    /\ UNCHANGED <<deskVars, bot_handle, bot, tasks, calls, sideVars>>

\* start(), Ok(Ok(me)): broadcast_status_change(Connected), then tokio::spawn of
\* the receive loop: the task runs from here on.
BroadcastConnected(k) ==
    /\ life[k].pc = "bcast_connected"
    /\ \E ok \in Outcomes :
        /\ events' = IF ok THEN Publish(BotStatusEvent("connected")) ELSE events
        /\ Counted(ok)
    /\ tasks' = Append(tasks, [state |-> "running", token |-> life[k].token])
    /\ life' = [life EXCEPT ![k] = [@ EXCEPT !.handle = Len(tasks) + 1, !.pc = "set_handle"]]
    /\ UNCHANGED <<storeVars, sent, updates, requests, ing, req, bot_handle, status, bot,
                   calls, sideVars>>

\* start(): *self.bot_handle.write().await = Some(handle); Ok(()). The handle
\* that was stored is dropped, which detaches its task.
SetHandle(k) ==
    /\ life[k].pc = "set_handle"
    /\ ~Locked
    /\ bot_handle' = life[k].handle
    /\ life' = [life EXCEPT ![k] = Return(k, "ok")]
    /\ UNCHANGED <<deskVars, status, bot, tasks, calls, sideVars>>

\* start(), Ok(Err(e)) | Err(_): *self.status.write().await = BotStatus::Error
SetError(k) ==
    /\ life[k].pc = "set_error"
    /\ status' = "Error"
    /\ life' = [life EXCEPT ![k].pc = "bcast_error"]
    /\ UNCHANGED <<deskVars, bot_handle, bot, tasks, calls, sideVars>>

\* start(), Ok(Err(e)) | Err(_): broadcast_status_change(Error); Err(..)
BroadcastError(k) ==
    /\ life[k].pc = "bcast_error"
    /\ \E ok \in Outcomes :
        /\ events' = IF ok THEN Publish(BotStatusEvent("error")) ELSE events
        /\ Counted(ok)
    /\ life' = [life EXCEPT ![k] = Return(k, "err")]
    /\ UNCHANGED <<storeVars, sent, updates, requests, ing, req, bot_handle, status, bot,
                   tasks, calls, sideVars>>

\* The spawned task: run_bot returns Ok(()) (its own identity check failed, or
\* the dispatcher shut down), then *status.write().await = BotStatus::Disconnected
TaskReturns(t) ==
    /\ t \in DOMAIN tasks
    /\ tasks[t].state = "running"
    /\ status' = "Disconnected"
    /\ tasks' = [tasks EXCEPT ![t].state = "ending"]
    /\ UNCHANGED <<deskVars, bot_handle, bot, calls, life, sideVars>>

\* The task is over and the Bot stays in the manager.
TaskClearsKept(t) ==
    /\ t \in DOMAIN tasks
    /\ tasks[t].state = "ending"
    /\ tasks' = [tasks EXCEPT ![t].state = "ended"]
    /\ UNCHANGED <<deskVars, bot_handle, status, bot, calls, life, sideVars>>

\* The spawned task: *bot_ref.write().await = None, and the task is over.
TaskClears(t) ==
    /\ t \in DOMAIN tasks
    /\ tasks[t].state = "ending"
    /\ bot' = NoToken
    /\ tasks' = [tasks EXCEPT ![t].state = "ended"]
    /\ UNCHANGED <<deskVars, bot_handle, status, calls, life, sideVars>>

\* The receive-loop tasks that are inside run_bot.
Alive == {t \in DOMAIN tasks : tasks[t].state = "running"}

Lifecycle(k) ==
    \/ Call(k) \/ StopLock(k) \/ StopBot(k) \/ StopStatus(k) \/ StopBroadcast(k)
    \/ Sleep(k) \/ Connecting(k) \/ BroadcastConnecting(k) \/ GetMe(k)
    \/ SetBot(k) \/ SetConnected(k) \/ BroadcastConnected(k) \/ SetHandle(k)
    \/ SetError(k) \/ BroadcastError(k)

\* update_settings with a bot token: the token is written to the settings store
\* (find_one, then update_where or create; an error answers 500) and
\* bot_manager.restart(token) is spawned as a task of its own; the handler
\* answers without waiting for it.
UpdateSettings(k) ==
    /\ Resting(k)
    /\ calls < MaxSettingsCalls
    /\ calls' = calls + 1
    /\ \E token \in Tokens, ok \in Outcomes :
        /\ Counted(ok)
        /\ IF ok
           THEN /\ settings' = token
                /\ life' = [j \in Callers |->
                        IF j = k
                        THEN [IdleCaller EXCEPT
                                !.pc = "stop_lock", !.op = "restart", !.token = token,
                                !.ret = "sleep",
                                !.alone = \A i \in Callers \ {k} : Resting(i)]
                        ELSE IF Resting(j) THEN life[j]
                        ELSE [life[j] EXCEPT !.alone = FALSE]]
           ELSE UNCHANGED <<settings, life>>
    /\ UNCHANGED <<storeVars, outVars, updates, requests, ing, req, bot_handle, status,
                   bot, tasks, users, gate, utilVars>>

\* stop(), start() and restart() once they were entered.
Restarting(k) ==
    \/ StopLock(k) \/ StopBot(k) \/ StopStatus(k) \/ StopBroadcast(k)
    \/ Sleep(k) \/ Connecting(k) \/ BroadcastConnecting(k) \/ GetMe(k)
    \/ SetBot(k) \/ SetConnected(k) \/ BroadcastConnected(k) \/ SetHandle(k)
    \/ SetError(k) \/ BroadcastError(k)

\* ------------------------------------------------------------------ accounts
\* The operator accounts; each of them holds a token that auth_middleware accepts.
Accounts == 1..NumAccounts
AdminRow == [exists |-> TRUE, is_admin |-> TRUE, is_active |-> TRUE]
NoAccount == [exists |-> FALSE, is_admin |-> FALSE, is_active |-> FALSE]
\* n counts the requests the client has made.
IdleGate ==
    [pc |-> "idle", op |-> "none", target |-> 0, row |-> NoAccount, res |-> "none", n |-> 0]
AdminOps == {"toggle_user_admin", "toggle_user_active", "delete_user"}

\* The check of the active flag left out.
has_admin_accessInactive(user) == user.is_admin
\* User::has_admin_access
has_admin_access(user) == user.is_active /\ user.is_admin

Rejected(g, res) == [g EXCEPT !.pc = "done", !.res = res]

\* A request for an admin route arrives with the client's token; auth_middleware
\* accepts the token and puts the user id of its claims into the request.
AdminRequest(u) ==
    /\ gate[u].pc \in {"idle", "done"}
    /\ gate[u].n < MaxAdminRequests
    /\ \E op \in AdminOps, target \in Accounts :
        gate' = [gate EXCEPT ![u] =
            [IdleGate EXCEPT !.pc = "admin_check", !.op = op, !.target = target,
                             !.n = gate[u].n + 1]]
    /\ UNCHANGED <<deskVars, botVars, users, settings, utilVars>>

\* admin_middleware: user_store.get_by_id(auth_user.user_id), NotFound on an
\* error or a missing row, Forbidden without admin access, else next.run(request).
admin_middleware(u) ==
    /\ gate[u].pc = "admin_check"
    /\ \E ok \in Outcomes :
        /\ gate' = [gate EXCEPT ![u] =
                IF ~(ok /\ users[u].exists) THEN Rejected(@, "NotFound")
                ELSE IF ~has_admin_access(users[u]) THEN Rejected(@, "Forbidden")
                ELSE [@ EXCEPT !.pc = "handler"]]
        /\ Counted(ok)
    /\ UNCHANGED <<storeVars, outVars, updates, requests, ing, req, botVars, users,
                   settings, utilVars>>

\* toggle_user_admin, toggle_user_active, delete_user: the first and the last
\* refuse the caller's own id; the toggles then call user_store.get_by_id(id),
\* delete_user reads nothing.
ReadAccount(u) ==
    /\ gate[u].pc = "handler"
    /\ \E ok \in (IF gate[u].op = "delete_user" THEN {TRUE} ELSE Outcomes) :
        /\ gate' = [gate EXCEPT ![u] =
                IF gate[u].op # "toggle_user_active" /\ gate[u].target = u
                THEN Rejected(@, "BadRequest")
                ELSE IF gate[u].op = "delete_user" THEN [@ EXCEPT !.pc = "write"]
                ELSE IF ~(ok /\ users[gate[u].target].exists) THEN Rejected(@, "NotFound")
                ELSE [@ EXCEPT !.pc = "write", !.row = users[gate[u].target]]]
        /\ Counted(ok)
    /\ UNCHANGED <<storeVars, outVars, updates, requests, ing, req, botVars, users,
                   settings, utilVars>>

\* The row the handler writes back, made from the row it read.
Toggled(g) ==
    CASE g.op = "toggle_user_admin" -> [g.row EXCEPT !.is_admin = ~@]
      [] g.op = "toggle_user_active" -> [g.row EXCEPT !.is_active = ~@]
      [] OTHER -> NoAccount

\* user_store.update(id, user)?, or user_store.delete(id)?
WriteAccount(u) ==
    /\ gate[u].pc = "write"
    /\ \E ok \in Outcomes :
        /\ IF ok /\ (users[gate[u].target].exists \/ gate[u].op = "delete_user")
           THEN /\ users' = [users EXCEPT ![gate[u].target] = Toggled(gate[u])]
                /\ gate' = [gate EXCEPT ![u] = Rejected(@, "ok")]
           ELSE /\ gate' = [gate EXCEPT ![u] = Rejected(@, "err")]
                /\ UNCHANGED users
        /\ Counted(ok)
    /\ UNCHANGED <<storeVars, outVars, updates, requests, ing, req, botVars, settings,
                   utilVars>>

AdminApi(u) == AdminRequest(u) \/ admin_middleware(u) \/ ReadAccount(u) \/ WriteAccount(u)

\* ------------------------------------------------------------------ utilities
Bundles == {"ru", "en"}
NoBundle == [called |-> FALSE, arg |-> None, out |-> "none"]
\* Country codes a sender row can hold: upper-cased subtags, and none at all.
CountryCodes == {"RU", "US", "EN", "BY", None}

\* A handler asks for the bundle of a country code.
GetLocale ==
    /\ \E country_code \in CountryCodes :
        bundle' = [called |-> TRUE, arg |-> country_code, out |-> get_locale(country_code)]
    /\ UNCHANGED <<deskVars, botVars, users, gate, settings, LOCALES, clock, issued,
                   verified>>

\* The token utilities. The user id of an account is a Uuid; sub is its text.
Emails == {"a@example.com", "b@example.com"}
to_string(user_id) == <<"uuid", user_id>>
parse_str(sub) == sub[2]

\* A secret is the sequence of its bytes. HMAC pads a key that is shorter than
\* the block of the hash with zero bytes.
Secrets == {<<1>>, <<1, 0>>, <<2>>}
HmacKey(secret) == [i \in 1..BlockSize |-> IF i <= Len(secret) THEN secret[i] ELSE 0]

\* expiration_seconds as i64: a u64 read as the two's complement number.
Expirations == 0..(2^TimeBits - 1)
as_i64(n) == IF n < 2^(TimeBits - 1) THEN n ELSE n - 2^TimeBits
\* Duration::seconds panics beyond i64::MAX / 1000.
MaxSeconds == 2^(TimeBits - 1) \div 2
\* Validation::default(): HS256, exp is checked with a leeway.
Leeway == 1

NoClaims == [sub |-> <<"none", 0>>, email |-> "none", iat |-> 0, exp |-> 0]
\* A string that is no dot-separated triple.
Garbage == [wellformed |-> FALSE, header |-> "none", claims |-> NoClaims, sig |-> <<>>]

\* Claims::new
Claims_new(user_id, email, expiration_seconds) ==
    [sub |-> to_string(user_id), email |-> email, iat |-> clock,
     exp |-> clock + as_i64(expiration_seconds)]

\* The HS256 signature of the header and the claims.
Sign(secret, header, claims) == <<HmacKey(secret), header, claims>>
encode(header, claims, secret) ==
    [wellformed |-> TRUE, header |-> header, claims |-> claims,
     sig |-> Sign(secret, header, claims)]

\* generate_token: Claims::new, then encode with Header::default().
generate_token(user_id, email, secret, expiration) ==
    IF as_i64(expiration) > MaxSeconds \/ as_i64(expiration) < -MaxSeconds
    THEN [res |-> Panic, token |-> Garbage]
    ELSE [res |-> "Ok",
          token |-> encode("HS256", Claims_new(user_id, email, expiration), secret)]

Err(e) == [res |-> e, claims |-> NoClaims]
Ok(claims) == [res |-> "Ok", claims |-> claims]

\* verify_token without the check of exp.
verify_tokenUnexpired(token, secret) ==
    IF ~token.wellformed THEN Err("InvalidToken")
    ELSE IF token.header # "HS256" THEN Err("InvalidAlgorithm")
    ELSE IF token.sig # Sign(secret, token.header, token.claims) THEN Err("InvalidSignature")
    ELSE Ok(token.claims)

\* verify_token: decode with Validation::default().
verify_token(token, secret) ==
    IF ~token.wellformed THEN Err("InvalidToken")
    ELSE IF token.header # "HS256" THEN Err("InvalidAlgorithm")
    ELSE IF token.sig # Sign(secret, token.header, token.claims) THEN Err("InvalidSignature")
    ELSE IF token.claims.exp < clock - Leeway THEN Err("ExpiredSignature")
    ELSE Ok(token.claims)

NoVerdict == [called |-> FALSE, token |-> Garbage, secret |-> <<>>, out |-> Err("none")]

\* login: a token is made for a user.
GenerateToken ==
    /\ Cardinality(issued) < MaxTokens
    /\ \E user_id \in Accounts, email \in Emails, secret \in Secrets,
          expiration \in Expirations :
        issued' = issued \cup
            {[user_id |-> user_id, email |-> email, secret |-> secret,
              expiration |-> expiration,
              out |-> generate_token(user_id, email, secret, expiration)]}
    /\ UNCHANGED <<deskVars, botVars, users, gate, settings, LOCALES, bundle, clock,
                   verified>>

\* The strings a client can present: a token it was given, such a token with
\* other claims under the old signature or with no signature, and anything else.
Forged(t) ==
    {[t EXCEPT !.claims.sub = to_string(u)] : u \in Accounts}
        \cup {[t EXCEPT !.claims.exp = @ + 1],
              [t EXCEPT !.header = "none", !.sig = <<>>]}
Presented ==
    {Garbage} \cup {i.out.token : i \in issued}
        \cup UNION {Forged(i.out.token) : i \in {j \in issued : j.out.res = "Ok"}}

\* auth_middleware: verify_token(token, config.jwt_secret)
VerifyToken ==
    /\ \E token \in Presented, secret \in Secrets :
        verified' = [called |-> TRUE, token |-> token, secret |-> secret,
                     out |-> verify_token(token, secret)]
    /\ UNCHANGED <<deskVars, botVars, users, gate, settings, LOCALES, bundle, clock,
                   issued>>

\* A second passes.
Tick ==
    /\ clock < MaxClock
    /\ clock' = clock + 1
    /\ UNCHANGED <<deskVars, botVars, users, gate, settings, LOCALES, bundle, issued,
                   verified>>


\* ------------------------------------------------------------------ the desk
\* main() has started the bot from the stored token: one session is running.
Running == <<[state |-> "running", token |-> Token1]>>

\* Nothing received, nothing stored, no request made.
DeskAtRest ==
    /\ telegram_users = [s \in Senders |-> NoUserRow]
    /\ conversations = [c \in ConvIds |-> NoConvRow]
    /\ next_conv = 0
    /\ messages = <<>>
    /\ events = EmptyBag
    /\ sent = EmptyBag
    /\ updates = 0
    /\ requests = 0
    /\ faults = 0
    /\ ing = [w \in Workers |-> IdleWorker]
    /\ req = IdleRequest

SessionUp ==
    /\ bot_handle = 1
    /\ status = "Connected"
    /\ bot = Token1
    /\ tasks = Running
    /\ calls = 0
    /\ life = [k \in Callers |-> IdleCaller]

\* The accounts are active administrators, the stored token is the one main()
\* read, both bundles are loaded and no token has been issued.
SideAtRest ==
    /\ users = [u \in Accounts |-> AdminRow]
    /\ gate = [u \in Accounts |-> IdleGate]
    /\ settings = Token1
    /\ LOCALES = Bundles
    /\ bundle = NoBundle
    /\ clock = 0
    /\ issued = {}
    /\ verified = NoVerdict

Init == DeskAtRest /\ SessionUp /\ SideAtRest

\* The desk: the chats' workers and the operators' requests over conversations.
DeskKinds == {"text"}
DeskOps == {"assign", "close", "status", "delete"}

Next ==
    \/ \E w \in Workers : ReceiveUpdate(w, DeskKinds) \/ Pipeline(w)
    \/ ConversationApi(DeskOps)

Spec == Init /\ [][Next]_vars

\* The dispatcher: operators answer and block while updates come in.
DispatchNext ==
    \/ \E w \in Workers : ReceiveUpdate(w, DeskKinds) \/ BlockedReply(w) \/ Pipeline(w)
    \/ DispatchApi

DispatchSpec == Init /\ [][DispatchNext]_vars

\* One private chat with every kind of update, commands included, and the
\* block switch of the operators.
PrivateChat == 1

SoloNext ==
    \/ HandleCommand(PrivateChat)
    \/ Ingest(PrivateChat, UpdateKinds)
    \/ StartRequest({"block"}) \/ ReadUserToBlock \/ WriteUserBlock

SoloSpec == Init /\ [][SoloNext]_vars

\* One private chat whose updates the transport may deliver again.
DupNext ==
    \/ ReceiveUpdate(PrivateChat, StoredKinds)
    \/ ReceiveDuplicate(PrivateChat)
    \/ Pipeline(PrivateChat)

DupSpec == Init /\ [][DupNext]_vars

\* The admin routes: the accounts change each other's flags.
AdminNext == \E u \in Accounts : AdminApi(u)

AdminSpec == Init /\ [][AdminNext]_vars

\* The utilities, with whatever bundles the files gave.
UtilInit ==
    /\ DeskAtRest /\ SessionUp
    /\ users = [u \in Accounts |-> AdminRow]
    /\ gate = [u \in Accounts |-> IdleGate]
    /\ settings = Token1
    /\ LOCALES \in SUBSET Bundles
    /\ bundle = NoBundle
    /\ clock = 0
    /\ issued = {}
    /\ verified = NoVerdict

UtilNext == GetLocale \/ GenerateToken \/ VerifyToken \/ Tick

UtilSpec == UtilInit /\ [][UtilNext]_vars

\* One private chat whose first messages are announced to the operators.
NotifyNext == ReceiveUpdate(PrivateChat, NotifyKinds) \/ Pipeline(PrivateChat)

NotifySpec == Init /\ [][NotifyNext]_vars

\* The settings page: administrators change the bot token while the session
\* main() started is running.
SettingsNext == \E k \in Callers : UpdateSettings(k) \/ Restarting(k)

SettingsSpec == Init /\ [][SettingsNext]_vars

\* The manager alone, from BotManager::new, before main() starts the bot.
ManagerNew ==
    /\ bot_handle = NoTask
    /\ status = "Disconnected"
    /\ bot = NoToken
    /\ tasks = <<>>
    /\ calls = 0
    /\ life = [k \in Callers |-> IdleCaller]

BotInit == DeskAtRest /\ ManagerNew /\ SideAtRest

BotNext ==
    \/ \E k \in Callers : Lifecycle(k)
    \/ \E t \in 1..MaxCalls : TaskReturns(t) \/ TaskClears(t)

BotSpec == BotInit /\ [][BotNext]_vars

\* The session started by main(): the dispatcher hands updates to the handlers
\* while the receive loop runs, operators answer, and the loop may end on its
\* own. The runtime runs a task that is ready, so the task's last write happens.
Session == 1

LoopNext ==
    \/ (Session \in Alive /\ ReceiveUpdate(PrivateChat, DeskKinds))
    \/ Pipeline(PrivateChat)
    \/ StartRequest({"send"}) \/ ReadConversation
    \/ SendToTelegram \/ StoreSentMessage \/ UpdateAfterSend \/ BroadcastSent
    \/ ReadBlockedUser \/ MarkUserBlocked \/ BroadcastBlocked
    \/ TaskReturns(Session) \/ TaskClears(Session)

LoopSpec == Init /\ [][LoopNext]_vars /\ WF_vars(TaskClears(Session))

\* Everything that broadcasts: one chat with EventUpdates updates, the operators'
\* requests that announce what they did, and EventCalls lifecycle calls made by
\* the settings handler.
AnnouncingOps == {"send", "assign", "close", "status", "mark_read"}
Settings == 1

EventsNext ==
    \/ (updates < EventUpdates /\ ReceiveUpdate(PrivateChat, DeskKinds))
    \/ Pipeline(PrivateChat)
    \/ StartRequest(AnnouncingOps) \/ ReadConversation \/ WriteConversation
    \/ ReadSender \/ Respond
    \/ SendToTelegram \/ StoreSentMessage \/ UpdateAfterSend \/ BroadcastSent
    \/ ReadBlockedUser \/ MarkUserBlocked \/ BroadcastBlocked
    \/ StartMarkAsRead \/ ReadMessage \/ WriteMessageRead \/ BroadcastRead
    \/ ((calls < EventCalls \/ ~Resting(Settings)) /\ Lifecycle(Settings))
    \/ \E t \in 1..(EventCalls + 1) : TaskReturns(t) \/ TaskClears(t)

EventsSpec == Init /\ [][EventsNext]_vars

\* ------------------------------------------------------------------ claims
\* C1: in every reachable state, under any interleaving of ingest, assign, close,
\* status-update and delete, each sender identity has at most one conversation
\* whose status is waiting or active.
C1_OneOpenConversation == \A s \in Senders : Cardinality(OpenConvs(s)) <= 1

\* A step of the handler of worker w, and a step of the HTTP request.
Steps(w) == ing'[w] # ing[w]
RequestSteps == req' # req

\* C2: a sender without waiting or active conversation gets exactly one new
\* conversation (waiting, unread 0), treated as newly created; an ingest for a
\* sender that has a waiting or active conversation creates none, takes that
\* conversation and treats it as not newly created.
C2_ResolveOnce ==
    [][\A w \in Workers :
        /\ (ing[w].pc = "find_conv" /\ Steps(w)) =>
              IF OpenConvs(ing[w].from) = {}
              THEN ing'[w].pc = "create_conv"
              ELSE /\ ing'[w].pc = "create_msg"
                   /\ ing'[w].conv \in OpenConvs(ing[w].from)
                   /\ ~ing'[w].is_new
        /\ (ing[w].pc = "create_conv" /\ Steps(w) /\ next_conv' # next_conv) =>
              /\ OpenConvs(ing[w].from) = {}
              /\ next_conv' = next_conv + 1
              /\ conversations'[next_conv'].status = "waiting"
              /\ conversations'[next_conv'].unread_count = 0
              /\ ing'[w].is_new]_vars

\* C3 (as amended): once the handler has read the sender row with blocked = true,
\* it stores no message, creates or modifies no conversation and publishes no
\* event; it sends the localized error reply and nothing else, or the generic
\* apology when sending that reply failed.
C3_BlockedSender ==
    [][\A w \in Workers :
        (ing[w].blocked /\ Steps(w)) =>
            /\ UNCHANGED <<messages, conversations, next_conv, events>>
            /\ CASE ing[w].pc = "blocked_reply" ->
                        IF faults' = faults
                        THEN sent' = Deliver(Localized(w, "error")) /\ ing'[w].pc = "idle"
                        ELSE sent' = sent /\ ing'[w].pc = "apology"
                 [] ing[w].pc = "apology" ->
                        sent' \in {sent, Deliver(Reply(w, "apology"))} /\ ing'[w].pc = "idle"
                 [] OTHER -> sent' = sent]_vars

\* C3, a blocked sender has been answered with the error reply and nothing of
\* its update is stored.
C3_Witness ==
    \E s \in Senders :
        /\ telegram_users[s].is_blocked
        /\ \E m \in BagToSet(sent) : m.kind = "error" /\ m.to = s
        /\ Len(messages) = 1
        /\ \A w \in Workers : ing[w].pc = "idle"

\* C3 as stated: whatever the content kind, a sender whose stored blocked flag is
\* true gets the error reply and no other reply.
C3_OnlyErrorReply ==
    [][\A w \in Workers :
        (ing[w].pc = "early_reply" /\ telegram_users[ing[w].from].is_blocked /\ Steps(w)) =>
            (sent' = sent \/ sent' = Deliver(Localized(w, "error")))]_vars

\* C4: for every conversation, however many updates are ingested into it, the
\* ConversationCreated event is published at most once and the welcome reply is
\* sent at most once.
C4_AtMostOnce ==
    \A c \in ConvIds :
        LET welcomes == {m \in BagToSet(sent) : m.kind = "welcome" /\ m.conv = c} IN
        /\ CopiesIn(Event("ConversationCreated", c, 0, "none"), events) <= 1
        /\ Cardinality(welcomes) <= 1
        /\ \A m \in welcomes : CopiesIn(m, sent) = 1

\* C4, two messages of the sender are stored in one conversation, which was
\* announced once and welcomed once.
C4_Witness ==
    \E c \in ConvIds :
        /\ Cardinality({i \in DOMAIN messages : messages[i].conversation_id = c}) >= 2
        /\ CopiesIn(Event("ConversationCreated", c, 0, "none"), events) = 1
        /\ \E m \in BagToSet(sent) : m.kind = "welcome" /\ m.conv = c
        /\ \A w \in Workers : ing[w].pc = "idle"

\* C5 (as amended): after a successful transport send the call holds the id the
\* transport gave; when message_store.create then answers, exactly one message is
\* stored for the call, from the operator, read, with that id; when the
\* conversation update answers, it sets the unread counter to 0 and last-activity
\* to now; the call then returns success and publishes one MessageSent event for
\* that message unless the broadcast fails. No other step of the call stores a
\* message.
C5_DispatchSuccess ==
    [][(req.op = "send" /\ RequestSteps) =>
        /\ (req.pc = "send" /\ req'.arg = "Ok") =>
              /\ req'.pc = "store"
              /\ req'.tg = TransportId
              /\ UNCHANGED <<storeVars, events>>
        /\ (req.pc = "store" /\ faults' = faults) =>
              /\ messages' = Append(messages,
                    [conversation_id |-> req.conv, from_user |-> TRUE, read |-> TRUE,
                     telegram_message_id |-> req.tg, media_type |-> "none"])
              /\ req'.msg = Len(messages')
              /\ req'.pc = "update"
        /\ (req.pc = "update" /\ faults' = faults /\ conversations[req.conv].exists) =>
              /\ conversations'[req.conv].unread_count = 0
              /\ conversations'[req.conv].last_message_at = Now
              /\ Now > req.cs.last_message_at
              /\ req'.pc = "bcast_sent"
        /\ req.pc = "bcast_sent" =>
              /\ req'.pc = "done" /\ req'.res = "ok"
              /\ events' = IF faults' = faults
                           THEN Publish(Event("MessageSent", req.conv, req.msg, "none"))
                           ELSE events
        /\ req.pc # "store" => messages' = messages]_vars

\* C5, a dispatch has returned success: its message is stored after a message of
\* the sender, the unread counter is back to 0 and MessageSent is published.
C5_Witness ==
    /\ req.op = "send" /\ req.pc = "done" /\ req.res = "ok"
    /\ req.msg \in DOMAIN messages
    /\ messages[req.msg].from_user /\ messages[req.msg].read
    /\ \E i \in DOMAIN messages :
        ~messages[i].from_user /\ messages[i].conversation_id = req.conv
    /\ conversations[req.conv].unread_count = 0
    /\ CopiesIn(Event("MessageSent", req.conv, req.msg, "none"), events) = 1

\* C5 as stated: whenever the transport send succeeded, the call stores a message.
C5_StoredAfterSend ==
    [][(req.op = "send" /\ req.pc = "store" /\ RequestSteps) =>
            Len(messages') = Len(messages) + 1]_vars

\* C6 (as amended): when the transport reports bot blocked, user deactivated or
\* chat not found, the call stores no message and leaves the conversations alone;
\* it reads the sender row and, when read and write answer, stores it with
\* blocked = true; it publishes Error USER_BLOCKED unless the broadcast fails, and
\* returns a failure.
C6_RecipientUnreachable ==
    [][(req.op = "send" /\ RequestSteps) =>
        /\ (req.pc = "send" /\ req'.arg \in {"BotBlocked", "UserDeactivated", "ChatNotFound"}) =>
              /\ req'.pc = "blocked_read"
              /\ UNCHANGED <<storeVars, outVars>>
        /\ req.pc \in {"blocked_read", "blocked_write", "blocked_bcast"} =>
              UNCHANGED <<messages, conversations, next_conv, sent>>
        /\ (req.pc = "blocked_read" /\ faults' = faults) =>
              req'.pc = "blocked_write"
        /\ (req.pc = "blocked_write" /\ faults' = faults) =>
              telegram_users'[req.cs.telegram_user_id].is_blocked
        /\ req.pc = "blocked_bcast" =>
              /\ req'.pc = "done" /\ req'.res = "err"
              /\ events' = IF faults' = faults
                           THEN Publish(Event("Error", 0, 0, "USER_BLOCKED"))
                           ELSE events]_vars

\* C6, a dispatch to an unreachable recipient has failed: the sender is stored
\* blocked, the error event is published, the conversation keeps its unread count.
C6_Witness ==
    /\ req.op = "send" /\ req.pc = "done" /\ req.res = "err"
    /\ req.arg \in {"BotBlocked", "UserDeactivated", "ChatNotFound"}
    /\ telegram_users[req.cs.telegram_user_id].is_blocked
    /\ CopiesIn(Event("Error", 0, 0, "USER_BLOCKED"), events) = 1
    /\ conversations[req.conv].unread_count = 1
    /\ \A i \in DOMAIN messages : ~messages[i].from_user

\* C6 as stated: when the call returns after an unreachable recipient, the
\* sender's blocked flag is true.
C6_BlockedAfterCall ==
    [][(req.op = "send" /\ req.pc = "blocked_bcast" /\ RequestSteps) =>
            telegram_users'[req.cs.telegram_user_id].is_blocked]_vars

\* C7: when the transport fails with another error, the call fails at once:
\* nothing is stored or changed, no event is published, nothing is sent, and the
\* send is not tried again.
C7_OtherTransportError ==
    [][(req.op = "send" /\ RequestSteps) =>
        /\ (req.pc = "send" /\ req'.arg \in {"OtherApi", "Network"}) =>
              /\ req'.pc = "done" /\ req'.res = "err"
              /\ UNCHANGED <<storeVars, outVars>>
        /\ req.pc = "send" => req'.pc # "send"
        /\ req.pc = "done" => requests' = requests + 1]_vars

\* C7, a dispatch has failed on a network error while the sender's message waits.
C7_Witness ==
    /\ req.op = "send" /\ req.pc = "done" /\ req.res = "err"
    /\ req.arg \in {"OtherApi", "Network"}
    /\ conversations[req.conv].unread_count = 1
    /\ ~telegram_users[req.cs.telegram_user_id].is_blocked

\* The manager's state, a caller inside stop(), and a caller inside the stop()
\* that start() runs right after the stop() of restart().
Manager == <<bot_handle, status, bot>>
InStop(k) == life[k].pc \in {"stop_lock"} \cup StopHeld
InSecondStop(k) == InStop(k) /\ life[k].op = "restart" /\ life[k].ret = "connecting"

\* C8: with no other lifecycle call in progress, every stop() returns success
\* and leaves status Disconnected, no Bot and no task handle; a stop() that
\* follows a stop() changes nothing of the manager's state.
C8_StopIdempotent ==
    [][\A k \in Callers :
        (life[k].alone /\ life'[k].pc # life[k].pc) =>
            /\ (life[k].pc = "stop_bcast") =>
                  /\ bot_handle' = NoTask /\ bot' = NoToken /\ status' = "Disconnected"
                  /\ life'[k].pc = IF life[k].ret = "return" THEN "done" ELSE life[k].ret
                  /\ life[k].ret = "return" => life'[k].res = "ok"
            /\ InSecondStop(k) => UNCHANGED Manager]_vars

\* C8, the second of two stop() calls in a row has returned, after the first one
\* cancelled a running receive loop.
C8_Witness ==
    \E k \in Callers :
        /\ life[k].op = "restart" /\ life[k].pc = "connecting" /\ life[k].alone
        /\ \E t \in DOMAIN tasks : tasks[t].state = "aborted"
        /\ bot_handle = NoTask /\ bot = NoToken /\ status = "Disconnected"

C10_Unsupported ==
    [][\A w \in Workers :
        (/\ Steps(w)
         /\ Extract(IF ing[w].pc = "idle" THEN ing'[w].kind ELSE ing[w].kind).out
                = "unsupported") =>
            /\ UNCHANGED <<storeVars, events>>
            /\ CASE ing[w].pc = "idle" ->
                        sent' = sent /\ ing'[w].pc = "early_reply"
                 [] ing[w].pc = "early_reply" ->
                        IF faults' = faults
                        THEN sent' = Deliver(Reply(w, "not_supported")) /\ ing'[w].pc = "idle"
                        ELSE sent' = sent /\ ing'[w].pc = "apology"
                 [] ing[w].pc = "apology" ->
                        sent' \in {sent, Deliver(Reply(w, "apology"))} /\ ing'[w].pc = "idle"
                 [] OTHER -> FALSE]_vars

\* C10, a contact card was the only update: nothing is stored, nothing is
\* published, the one reply is the not-supported one.
C10_Witness ==
    /\ updates = 1
    /\ \A w \in Workers : ing[w].pc = "idle"
    /\ sent = SetToBag({[to |-> PrivateChat, kind |-> "not_supported", locale |-> "fixed",
                         conv |-> 0]})
    /\ events = EmptyBag /\ messages = <<>> /\ next_conv = 0
    /\ \A s \in Senders : ~telegram_users[s].exists

\* C10 as stated: the handler of an unsupported update sends exactly the
\* not-supported reply.
C10_ExactlyNotSupported ==
    [][\A w \in Workers :
        (ing[w].pc = "early_reply" /\ Extract(ing[w].kind).out = "unsupported" /\ Steps(w)) =>
            sent' = Deliver(Reply(w, "not_supported"))]_vars

\* A step of the lifecycle call of caller k; a step in which no collaborator
\* call failed.
LifeSteps(k) == life'[k].pc # life[k].pc
NoFault == faults' = faults

\* C11: under any interleaving of start, stop and restart calls, at most one
\* receive-loop task is running, and a running task is the one whose handle the
\* manager stores (or the one the start() that spawned it is about to store).
C11_OneReceiveLoop ==
    /\ Cardinality(Alive) <= 1
    /\ \A t \in Alive :
        \/ bot_handle = t
        \/ \E k \in Callers : life[k].pc = "set_handle" /\ life[k].handle = t

\* C12: with no other lifecycle call in progress, a start() whose identity check
\* failed or timed out spawns no task and
\* returns an error with status Error, the BotStatus "error" event published
\* (when the event transport took it), no Bot and no task handle stored.
C12_StartFails ==
    [][\A k \in Callers :
        (life[k].alone /\ LifeSteps(k)) =>
            /\ life[k].pc \in {"set_error", "bcast_error"} => tasks' = tasks
            /\ life[k].pc = "bcast_error" =>
                  /\ life'[k].pc = "done" /\ life'[k].res = "err"
                  /\ status' = "Error"
                  /\ events' = IF NoFault THEN Publish(BotStatusEvent("error")) ELSE events
                  /\ bot' = NoToken
                  /\ bot_handle' = NoTask]_vars

\* C13: a start() whose identity check succeeds, with no other lifecycle call in
\* progress, sets Connecting and publishes "connecting", then stores the Bot,
\* sets Connected, publishes "connected" and spawns one task, in this order; it
\* returns success with that task's handle stored and, while that receive loop
\* has not ended on its own, with status Connected and the Bot stored.
C13_StartSucceeds ==
    [][\A k \in Callers :
        (life[k].alone /\ LifeSteps(k)) =>
            /\ life[k].pc = "connecting" =>
                  status' = "Connecting" /\ life'[k].pc = "bcast_connecting"
            /\ life[k].pc = "bcast_connecting" =>
                  /\ events' = IF NoFault THEN Publish(BotStatusEvent("connecting"))
                               ELSE events
                  /\ life'[k].pc = "get_me"
            /\ life[k].pc = "set_bot" =>
                  bot' = life[k].token /\ life'[k].pc = "set_connected"
            /\ life[k].pc = "set_connected" =>
                  status' = "Connected" /\ life'[k].pc = "bcast_connected"
            /\ life[k].pc = "bcast_connected" =>
                  /\ events' = IF NoFault THEN Publish(BotStatusEvent("connected"))
                               ELSE events
                  /\ Len(tasks') = Len(tasks) + 1
                  /\ life'[k].handle = Len(tasks')
                  /\ life'[k].pc = "set_handle"
            /\ life[k].pc = "set_handle" =>
                  /\ life'[k].pc = "done" /\ life'[k].res = "ok"
                  /\ bot_handle' = life[k].handle
                  /\ tasks[life[k].handle].state = "running" =>
                        status' = "Connected" /\ bot' = life[k].token]_vars

\* The manager at rest: no receive loop, no Bot, no task handle, Disconnected.
Stopped ==
    /\ Alive = {}
    /\ bot = NoToken
    /\ bot_handle = NoTask
    /\ status = "Disconnected"

\* C14: when stop() returns and no other lifecycle call ran beside it, the
\* manager is stopped
\* and the BotStatus "disconnected" event is published (when the event transport
\* took it); a stopped manager stays stopped as long as no lifecycle call runs.
C14_StopStops ==
    [][/\ \A k \in Callers :
            (/\ life[k].pc = "stop_bcast" /\ life[k].ret = "return" /\ LifeSteps(k)
             /\ life[k].alone) =>
                /\ Stopped'
                /\ events' = IF NoFault THEN Publish(BotStatusEvent("disconnected"))
                             ELSE events
       /\ (Stopped /\ \A k \in Callers : Resting(k) /\ life'[k] = life[k]) => Stopped']_vars

\* C15: once the receive loop of the session has ended on its own, eventually
\* the status is Disconnected or Error and the Bot is cleared; a dispatch that
\* asks the manager for the Bot after that fails without calling the transport,
\* storing a message, changing a conversation or publishing an event.
C15_LoopEnds ==
    /\ (tasks[Session].state = "ending") ~>
            (status \in {"Disconnected", "Error"} /\ bot = NoToken)
    /\ [][(bot = NoToken /\ tasks[Session].state = "ended" /\ req.op = "send"
           /\ req.pc \in {"read", "send"} /\ RequestSteps) =>
                /\ UNCHANGED <<storeVars, outVars>>
                /\ req'.pc \in {"send", "done"}
                /\ req'.pc = "done" => req'.res = "err"
                /\ req'.arg = "none"]_vars

\* C15, the loop has ended and cleared the Bot, and a dispatch to a stored
\* conversation has failed after that without reaching the transport.
C15_Witness ==
    /\ tasks[Session].state = "ended"
    /\ bot = NoToken /\ status = "Disconnected"
    /\ req.op = "send" /\ req.pc = "done" /\ req.res = "err"
    /\ req.cs.exists /\ req.arg = "none"
    /\ Len(messages) = 1 /\ ~messages[1].from_user
    /\ \A m \in BagToSet(sent) : m.kind # "operator"

\* C16: a broadcast that fails changes nothing but the event: after the step
\* that broadcasts, published or not, ingest goes on or returns Ok, dispatch,
\* assign, close, status-update and mark-as-read return what they return when
\* the event is published, the lifecycle call goes on to its next step, and the
\* stores and the manager's state are what the steps before left.
C16_BroadcastBestEffort ==
    [][/\ \A w \in Workers :
            Steps(w) =>
                /\ ing[w].pc = "announce" =>
                      /\ ing'[w] = [ing[w] EXCEPT !.pc = "create_msg"]
                      /\ UNCHANGED storeVars
                /\ ing[w].pc = "bcast_received" =>
                      /\ ing'[w] = IdleWorker
                      /\ UNCHANGED <<storeVars, sent>>
       /\ RequestSteps =>
            /\ req.pc \in {"respond", "bcast_sent", "bcast_read"} =>
                  /\ req' = Succeed(req)
                  /\ UNCHANGED <<storeVars, sent>>
            /\ req.pc = "blocked_bcast" =>
                  /\ req' = Fail(req)
                  /\ UNCHANGED <<storeVars, sent>>
       /\ \A k \in Callers :
            LifeSteps(k) =>
                /\ life[k].pc = "stop_bcast" =>
                      /\ life'[k].pc = IF life[k].ret = "return" THEN "done" ELSE life[k].ret
                      /\ life[k].ret = "return" => life'[k].res = "ok"
                      /\ UNCHANGED <<bot_handle, status, bot, tasks>>
                /\ life[k].pc = "bcast_connecting" =>
                      /\ life'[k].pc = "get_me"
                      /\ UNCHANGED <<bot_handle, status, bot, tasks>>
                /\ life[k].pc = "bcast_connected" =>
                      /\ life'[k].pc = "set_handle"
                      /\ Len(tasks') = Len(tasks) + 1
                      /\ UNCHANGED <<bot_handle, status, bot>>
                /\ life[k].pc = "bcast_error" =>
                      /\ life'[k].pc = "done" /\ life'[k].res = "err"
                      /\ UNCHANGED <<bot_handle, status, bot, tasks>>]_vars

\* C16, an assign has returned success and the conversation is stored as
\* assigned although the one failed call of the run was its broadcast: the
\* events of the ingest are published, the one of the assign is not.
C16_Witness ==
    /\ req.op = "assign" /\ req.pc = "done" /\ req.res = "ok"
    /\ faults = 1
    /\ conversations[req.conv].status = "active"
    /\ conversations[req.conv].user_id = req.operator
    /\ CopiesIn(Event("ConversationAssigned", req.conv, 0, "none"), events) = 0
    /\ CopiesIn(Event("ConversationCreated", req.conv, 0, "none"), events) = 1
    /\ CopiesIn(Event("MessageReceived", req.conv, 1, "none"), events) = 1
    /\ \E m \in BagToSet(sent) : m.kind = "notification"
    /\ \E m \in BagToSet(sent) : m.kind = "welcome"

\* C17: when the open-conversation lookup or the create fails, the handler
\* creates no conversation, stores no message and publishes no event; it goes
\* to the generic apology, sends it (when the transport takes it) and returns:
\* the update is not handled again.
C17_ResolutionFailureFatal ==
    [][\A w \in Workers :
        Steps(w) =>
            /\ (ing[w].pc \in {"find_conv", "create_conv"} /\ ~NoFault) =>
                  /\ ing'[w].pc = "apology"
                  /\ UNCHANGED <<storeVars, outVars>>
            /\ ing[w].pc = "apology" =>
                  /\ ing'[w] = IdleWorker
                  /\ sent' \in {sent, Deliver(Reply(w, "apology"))}
                  /\ UNCHANGED <<storeVars, events, updates>>]_vars

\* C18: no step of an ingest changes the status of a closed conversation or
\* stores a message in it, also when the conversation was closed after the
\* handler resolved it; a handler that finds no open conversation of the sender
\* goes on to create one.
C18_ClosedStaysClosed ==
    [][\A w \in Workers :
        Steps(w) =>
            /\ \A c \in ConvIds :
                (conversations[c].exists /\ conversations[c].status = "closed") =>
                    /\ conversations'[c].status = "closed"
                    /\ Len(messages') > Len(messages) =>
                          messages'[Len(messages')].conversation_id # c
            /\ (ing[w].pc = "find_conv" /\ OpenConvs(ing[w].from) = {}) =>
                  ing'[w].pc = "create_conv"]_vars

\* C19: the status of a stored conversation changes only by a request of an
\* operator on that conversation: to active by an assign or a status-update, to
\* closed by a close (or a status-update asking for closed); no step moves a
\* conversation to waiting, or a closed conversation to anything but active.
C19_StatusTransitions ==
    [][\A c \in ConvIds :
        LET old == conversations[c].status
            new == conversations'[c].status
        IN  (conversations[c].exists /\ conversations'[c].exists /\ new # old) =>
                /\ RequestSteps /\ req.conv = c
                /\ \/ req.op \in {"assign", "status"} /\ new = "active"
                   \/ req.op \in {"close", "status"} /\ old # "closed" /\ new = "closed"
                /\ new # "waiting"
                /\ old = "closed" => new = "active"]_vars

\* C20: once the message of an update is stored and its conversation updated,
\* the handler gets to the MessageReceived broadcast whether the welcome reply
\* was delivered or not; that step publishes one event with the conversation id
\* and the message id (when the event transport takes it), and no other step of
\* an ingest publishes a MessageReceived event.
C20_AnnouncedOnce ==
    [][\A w \in Workers :
        Steps(w) =>
            LET received == Event("MessageReceived", ing[w].conv, ing[w].msg, "none") IN
            /\ ing[w].pc = "welcome" => ing'[w].pc = "bcast_received"
            /\ ing[w].pc = "bcast_received" =>
                  events' = IF NoFault THEN Publish(received) ELSE events
            /\ ing[w].pc # "bcast_received" =>
                  \A e \in BagToSet(events') :
                      e.type = "MessageReceived" => CopiesIn(e, events') = CopiesIn(e, events)]_vars

\* ---------------------------------------------------------------- claim C21
\* The sender messages stored for one inbound update: the same sender and the
\* same transport message id.
StoredFor(s, n) ==
    {m \in 1..Len(messages) :
        /\ ~messages[m].from_user
        /\ messages[m].telegram_message_id = n
        /\ conversations[messages[m].conversation_id].telegram_user_id = s}

ReceivedFor(s, n) ==
    {e \in BagToSet(events) : e.type = "MessageReceived" /\ e.msg \in StoredFor(s, n)}

\* C21: an inbound update that is delivered more than once is stored at most
\* once, announced by at most one MessageReceived event and counted at most once
\* in the unread counter of its conversation (stated for the runs in which no
\* collaborator call failed).
C21_DuplicateOnce ==
    faults = 0 =>
        /\ \A s \in Senders, n \in 1..MaxUpdates :
            /\ Cardinality(StoredFor(s, n)) <= 1
            /\ Cardinality(ReceivedFor(s, n)) <= 1
        /\ \A c \in ConvIds :
            conversations[c].unread_count <=
                Cardinality({n \in 1..MaxUpdates :
                    \E m \in 1..Len(messages) :
                        /\ messages[m].conversation_id = c
                        /\ messages[m].telegram_message_id = n})

\* ---------------------------------------------------------------- claim C22
\* No handler is between its steps.
Quiescent == (\A w \in Workers : ing[w].pc = "idle") /\ req.pc \in {"idle", "done"}

SenderMessages(c) ==
    {m \in 1..Len(messages) : messages[m].conversation_id = c /\ ~messages[m].from_user}

\* C22: at every quiescent state the unread counter of a conversation is the
\* number of sender messages stored in it since the last dispatch or mark-read;
\* stated for the runs in which no operator request was made and no collaborator
\* call failed, where that number is the number of all its sender messages.
C22_UnreadCounter ==
    (Quiescent /\ requests = 0 /\ faults = 0) =>
        \A c \in ConvIds :
            conversations[c].exists =>
                conversations[c].unread_count = Cardinality(SenderMessages(c))

\* ---------------------------------------------------------------- claim C23
GateSteps(u) == gate'[u] # gate[u]

C24_Locale ==
    bundle.called =>
        bundle.out = IF bundle.arg = "RU" /\ "ru" \in LOCALES THEN "ru"
                     ELSE IF "en" \in LOCALES THEN "en"
                     ELSE Panic

\* The fallback: "RU" was asked for without the Russian bundle and English came.
C24_Witness ==
    bundle.called /\ bundle.arg = "RU" /\ "ru" \notin LOCALES /\ bundle.out = "en"

\* C24 as stated: Russian for "RU" with the Russian bundle loaded, English in
\* every other case.
C24_RussianOrEnglish ==
    bundle.called =>
        bundle.out = IF bundle.arg = "RU" /\ "ru" \in LOCALES THEN "ru" ELSE "en"

\* ---------------------------------------------------------------- claim C25
VerifySteps == verified' # verified

Rank(pc) ==
    CASE pc = "find_conv" -> 1
      [] pc = "create_conv" -> 2
      [] pc = "announce" -> 3
      [] pc = "create_msg" -> 4
      [] pc = "update_conv" -> 5
      [] pc = "welcome" -> 6
      [] pc = "bcast_received" -> 7
      [] OTHER -> 0

ConversationCreated(c) ==
    [type |-> "ConversationCreated", conv |-> c, msg |-> 0, code |-> "none"]

\* C26: within one ingest the conversation is resolved, ConversationCreated is
\* published (new conversation only), the message is persisted, the conversation
\* is updated, the welcome is sent (new conversation only) and MessageReceived is
\* published, in this order and each by its own step. Hence a MessageReceived
\* refers to a stored sender message of its conversation, and the ingest that
\* created a conversation has published its ConversationCreated before its
\* MessageReceived.
C26_IngestOrder ==
    [][\A w \in Workers :
        Steps(w) =>
            /\ (Rank(ing[w].pc) > 0 /\ Rank(ing'[w].pc) > 0) =>
                    Rank(ing'[w].pc) > Rank(ing[w].pc)
            /\ ing'[w].pc = "create_msg" =>
                    /\ ing[w].pc \in {"find_conv", "announce"}
                    /\ ing'[w].is_new <=> ing[w].pc = "announce"
            /\ ing'[w].pc = "welcome" => ing[w].is_new
            /\ ing'[w].pc = "bcast_received" =>
                    ing[w].pc = IF ing[w].is_new THEN "welcome" ELSE "update_conv"
            /\ messages' # messages => ing[w].pc = "create_msg"
            /\ conversations' # conversations => ing[w].pc \in {"create_conv", "update_conv"}
            /\ events' # events => ing[w].pc \in {"announce", "bcast_received"}
            /\ ing[w].pc = "announce" =>
                    /\ ing[w].is_new
                    /\ NoFault => events' = Publish(ConversationCreated(ing[w].conv))
            /\ ing[w].pc = "bcast_received" =>
                    /\ ing[w].msg \in 1..Len(messages)
                    /\ messages[ing[w].msg].conversation_id = ing[w].conv
                    /\ ~messages[ing[w].msg].from_user
                    /\ NoFault =>
                        events' = Publish([type |-> "MessageReceived", conv |-> ing[w].conv,
                                           msg |-> ing[w].msg, code |-> "none"])
                    /\ (ing[w].is_new /\ faults' = 0) =>
                        BagIn(ConversationCreated(ing[w].conv), events)]_vars

\* An ingest has created a conversation and both of its events are published.
C26_Witness ==
    \E e \in BagToSet(events) :
        /\ e.type = "MessageReceived"
        /\ e.msg \in 1..Len(messages)
        /\ BagIn(ConversationCreated(e.conv), events)
        /\ BagIn([to |-> PrivateChat, kind |-> "welcome",
                  locale |-> get_locale(CountryCode(PrivateChat)), conv |-> e.conv], sent)

\* C26 as stated: the ConversationCreated of a conversation is published before
\* the first MessageReceived of that conversation (in the runs in which no
\* collaborator call failed).
C26_CreatedFirst ==
    faults = 0 =>
        \A e \in BagToSet(events) :
            e.type = "MessageReceived" => BagIn(ConversationCreated(e.conv), events)

\* ---------------------------------------------------------------- claim C27
\* C27: a failure of the avatar fetch, of loading the operator list or of a
\* notification never stops the ingest: the step of the avatar goes on to the
\* blocked check, and the step that announces a new conversation notifies the
\* operators whose send did not fail and goes on to store the message; no
\* apology is sent because of them.
C27_NeverStops ==
    [][Steps(PrivateChat) =>
        /\ ing[PrivateChat].pc = "photo_fetch" =>
                ing'[PrivateChat].pc \in {"find_conv", "blocked_reply"}
        /\ ing[PrivateChat].pc = "announce" =>
                /\ ing'[PrivateChat].pc = "create_msg"
                /\ NoFault =>
                    \A o \in Notified :
                        BagIn([to |-> NotifyChat(o), kind |-> "notification",
                               locale |-> "fixed", conv |-> ing[PrivateChat].conv], sent')]_vars

\* ---------------------------------------------------------------- claim C28
\* C28: the write of an ingest changes only last_message_at and unread_count of
\* its conversation: the status and the assigned operator that are in the store
\* when the ingest writes, an assignment, a close or a status change that
\* completed since the ingest read the row included, are still there afterwards.
C28_FrameEffect ==
    [][\A w \in Workers :
        (Steps(w) /\ ing[w].pc = "update_conv") =>
            /\ conversations'[ing[w].conv].status = conversations[ing[w].conv].status
            /\ conversations'[ing[w].conv].user_id = conversations[ing[w].conv].user_id
            /\ \A c \in ConvIds \ {ing[w].conv} : conversations'[c] = conversations[c]]_vars

\* ---------------------------------------------------------------- claim C29
\* C29: when every update_settings call and the restart it spawned have
\* finished, every identity check having succeeded and no collaborator call
\* having failed, the receive loops that are running hold the token that is in
\* the settings store.
C29_SessionToken ==
    (/\ calls > 0
     /\ faults = 0
     /\ \A k \in Callers : life[k].pc = "idle" \/ (life[k].pc = "done" /\ life[k].res = "ok")
     /\ status = "Connected") =>
        \A t \in Alive : tasks[t].token = settings

\* ---------------------------------------------------------------- claim C30
\* C30: every change of the lifecycle status is broadcast as a BotStatus event
\* with the new value: a step that changes the status is a step of a lifecycle
\* operation, which broadcasts the new value next.
C30_StatusBroadcast ==
    [][status' # status =>
        \E k \in Callers :
            /\ LifeSteps(k)
            /\ life'[k].pc \in {"stop_bcast", "bcast_connecting", "bcast_connected",
                                "bcast_error"}]_vars

====
